---- MODULE Spec2Model ----
(***************************************************************************)
(* Smart watch control core (src/main.c) and the accelerometer prototype   *)
(* (src/working_acc.c): clock arithmetic, step detection, pace smoothing,  *)
(* the Timer1 tick handler and the foreground menu loop.                   *)
(*                                                                         *)
(* Numbers.  The paces are C floats that are integers below 2^24, so float *)
(* arithmetic on them is exact and they are modelled as integers; a        *)
(* comparison against 0.5 is written on the doubled value.  The magnitude  *)
(* of a reading is an IEEE 754 binary32 value, rounded as the float        *)
(* operations round.  uint8_t / uint16_t fields wrap.                      *)
(***************************************************************************)
EXTENDS Integers, Naturals, Sequences, FiniteSets, TLC

\* ------------------------------------------------------------ constants
STEP_THRESHOLD == 900
ACC_THRESHOLD == 200
GRAVITY_BASELINE == 1024
AXIS_GAIN == 4
GRAPH_WIDTH == 90
HISTORY_SIZE == 60
MENU_ITEM_COUNT == 5
PACE_STEP == 2
PACE_MAX == 100
PACE_PER_STEP == 60
INACTIVITY_TICKS == 3

\* ------------------------------------------------------------ bounds
MaxAdvance == 3
MaxSamples == 5
MaxPaceSteps == 2
MaxIter == 52

\* ------------------------------------------------------------ integer helpers
U8(n) == n % 256
U16(n) == n % 65536
Abs(n) == IF n < 0 THEN -n ELSE n
Min(a, b) == IF a < b THEN a ELSE b

\* ------------------------------------------------------------ float
\* IEEE 754 binary32 (the C float), round to nearest, ties to even.  <<m, e>>
\* stands for m * 2^e, with m = 0 and e = 0, or 2^23 <= |m| < 2^24.
RECURSIVE BitLength(_)
BitLength(n) == IF n = 0 THEN 0 ELSE 1 + BitLength(n \div 2)

\* n * 2^e, for 0 <= n < 2^31, rounded to a float
F32Round(n, e) ==
  IF n = 0 THEN <<0, 0>>
  ELSE LET len == BitLength(n)
       IN IF len <= 24
          THEN <<n * 2^(24 - len), e - (24 - len)>>
          ELSE LET k == len - 24
                   q == n \div 2^k
                   r == n % 2^k
                   half == 2^(k - 1)
                   m == IF r > half \/ (r = half /\ q % 2 = 1) THEN q + 1 ELSE q
               IN IF m = 2^24 THEN <<2^23, e + k + 1>> ELSE <<m, e + k>>

\* (float)n for an integer 0 <= n < 2^31
F32(n) == F32Round(n, 0)

\* x < y for floats that are not negative
F32Less(x, y) ==
  IF y[1] = 0 THEN FALSE
  ELSE IF x[1] = 0 THEN TRUE
  ELSE x[2] < y[2] \/ (x[2] = y[2] /\ x[1] < y[1])

\* x + y for floats that are not negative: the smaller operand is aligned with
\* three extra bits, the last one collecting every bit shifted out
F32Add(x, y) ==
  LET swap == F32Less(x, y)
      a == IF swap THEN y ELSE x
      b == IF swap THEN x ELSE y
      d == a[2] - b[2]
      q == IF d > 27 THEN 0 ELSE (8 * b[1]) \div 2^d
      lost == IF d > 27 THEN TRUE ELSE (8 * b[1]) % 2^d # 0
      aligned == IF lost /\ q % 2 = 0 THEN q + 1 ELSE q
  IN IF b[1] = 0 THEN a ELSE F32Round(8 * a[1] + aligned, a[2] - 3)

\* x - y for floats that are not negative, aligned as in the sum
F32Sub(x, y) ==
  LET neg == F32Less(x, y)
      a == IF neg THEN y ELSE x
      b == IF neg THEN x ELSE y
      d == a[2] - b[2]
      q == IF d > 27 THEN 0 ELSE (8 * b[1]) \div 2^d
      lost == IF d > 27 THEN TRUE ELSE (8 * b[1]) % 2^d # 0
      aligned == IF lost /\ q % 2 = 0 THEN q + 1 ELSE q
      r == IF b[1] = 0 THEN a ELSE F32Round(8 * a[1] - aligned, a[2] - 3)
  IN IF neg THEN <<-r[1], r[2]>> ELSE r

fabsf(x) == <<Abs(x[1]), x[2]>>

\* the digits of the square root of the integer s < 2^26, most significant
\* first: i is the pair of bits of s that comes next (below 0: a fraction bit),
\* rem and root the remainder and the root so far; stops when the root has 25
\* bits and gives <<root, remainder, number of fraction bits>>
RECURSIVE SqrtDigits(_, _, _, _)
SqrtDigits(s, i, rem, root) ==
  IF i < 0 /\ root >= 2^24 THEN <<root, rem, -1 - i>>
  ELSE LET pair == IF i >= 0 THEN (s \div 2^(2 * i)) % 4 ELSE 0
           r == 4 * rem + pair
           t == 4 * root + 1
       IN IF r >= t THEN SqrtDigits(s, i - 1, r - t, 2 * root + 1)
          ELSE SqrtDigits(s, i - 1, r, 2 * root)

\* sqrtf of a float that is not negative: the exponent is made even, the root
\* of the mantissa is taken to 25 bits, with one more bit for a remainder that
\* is not 0, and rounded
sqrtf(x) ==
  IF x[1] = 0 THEN x
  ELSE LET even == x[2] % 2 = 0
           m == IF even THEN x[1] ELSE 2 * x[1]
           e == IF even THEN x[2] ELSE x[2] - 1
           d == SqrtDigits(m, 12, 0, 0)
       IN F32Round(2 * d[1] + (IF d[2] = 0 THEN 0 ELSE 1), e \div 2 - d[3] - 1)

\* ------------------------------------------------------------ ClockModel
DAYS_PER_MONTH == <<31, 28, 31, 30, 31, 30, 31, 31, 30, 31, 30, 31>>

ValidClock(t) ==
  /\ t.hours \in 0..23 /\ t.minutes \in 0..59 /\ t.seconds \in 0..59
  /\ t.month \in 1..12 /\ t.day >= 1 /\ t.day <= DAYS_PER_MONTH[t.month]

\* advanceDate, a variant that keeps the last day of the month one day too long
advanceDateLate(time) ==
  LET d == U8(time.day + 1)
      maxDays == DAYS_PER_MONTH[time.month]
  IN IF d > maxDays + 1
     THEN [time EXCEPT !.day = 1,
                       !.month = IF U8(time.month + 1) > 12 THEN 1 ELSE U8(time.month + 1)]
     ELSE [time EXCEPT !.day = d]

advanceDate(time) ==
  LET d == U8(time.day + 1)
      maxDays == DAYS_PER_MONTH[time.month]
  IN IF d > maxDays
     THEN [time EXCEPT !.day = 1,
                       !.month = IF U8(time.month + 1) > 12 THEN 1 ELSE U8(time.month + 1)]
     ELSE [time EXCEPT !.day = d]

incrementSystemTime(time) ==
  LET s1 == U8(time.seconds + 1)
      t1 == IF s1 >= 60
            THEN [time EXCEPT !.seconds = 0, !.minutes = U8(time.minutes + 1)]
            ELSE [time EXCEPT !.seconds = s1]
      t2 == IF t1.minutes >= 60
            THEN [t1 EXCEPT !.minutes = 0, !.hours = U8(t1.hours + 1)]
            ELSE t1
  IN IF t2.hours >= 24 THEN advanceDate([t2 EXCEPT !.hours = 0]) ELSE t2

\* ------------------------------------------------------------ MotionSampler
\* A reading is an int16_t.  float ax = accel.x * 4.0f is exact: the gain is a
\* power of two and moves the exponent only; ax * ax is v * v with the exponent
\* moved twice, rounded once.
AxisSquare(v) == F32Round(v * v, 2 * (BitLength(AXIS_GAIN) - 1))

\* sqrtf(ax * ax + ay * ay + az * az)
Magnitude(a) ==
  sqrtf(F32Add(F32Add(AxisSquare(a.x), AxisSquare(a.y)), AxisSquare(a.z)))

\* fabsf(magnitude - GRAVITY_BASELINE)
DynamicForce(a) == fabsf(F32Sub(Magnitude(a), F32(GRAVITY_BASELINE)))

\* dynamicForce > threshold, and dynamicForce >= threshold
ForceAbove(a, threshold) == F32Less(F32(threshold), DynamicForce(a))
ForceAtOrAbove(a, threshold) == ~F32Less(DynamicForce(a), F32(threshold))

\* exceedsThreshold of main.c's detectStep, with >= in place of >
ExceedsAtOrAbove(a) == ~F32Less(DynamicForce(a), F32(STEP_THRESHOLD))

ExceedsThreshold(a) == F32Less(F32(STEP_THRESHOLD), DynamicForce(a))

\* `above` of working_acc.c's detectStep (threshold 200.0f)
AccAbove(a) == F32Less(F32(ACC_THRESHOLD), DynamicForce(a))

\* ------------------------------------------------------------ state
VARIABLES
  \* input lines (RA11, RA12): TRUE while the button is physically pressed
  b1, b2,
  \* ClockModel / TimeBase
  systemClock, elapsedSeconds, showFootIcon,
  \* StepDetector (main.c) and the tick handler's statics
  totalSteps, wasStepThresholdExceeded, stepsPerSecond, currentSecondIndex,
  previousStepCount, inactivityCount,
  \* StepDetector of the prototype (working_acc.c)
  stepCount, wasAboveThreshold,
  \* PaceEstimator: globals, and main()'s locals currentDisplayPace / rawPace
  currentStepPace, displayedStepPace, currentDisplayPace, rawPace, stepRateHistory,
  \* MenuStateMachine: globals
  inMainMenu, currentMenuSelection, isGraphDisplayed, justEnteredMenu, redrawClock,
  use12HourFormat, timeFormatOption, inTimeFormatMenu, inTimeSetMenu,
  timeToSet, timeFieldSelected, dateToSet, dateFieldSelected,
  \* function statics and locals: _T1Interrupt's button1HoldCount, displayStepGraph's
  \* button1HoldCount, main()'s statics and its two button samples, tiltCount
  button1HoldCount, graphButton1HoldCount, comboPressCount, button1WasPressed,
  button2WasPressed, wasInMenu, button1Pressed, button2Pressed, tiltCount,
  \* the foreground's updateMenuTimeDisplay and renderClockDisplay in progress:
  \* the text built so far (hours, minutes, seconds) and the local isPM
  currentTimeStr, isPM,
  \* where the foreground code stands, and where it continues when
  \* updateMenuTimeDisplay returns (innermost first)
  ret, pc,
  \* history of the inputs and counters the properties speak about
  samples, clock0, nAdv, pace0, nIter,
  ticksLeft, pressesLeft, itersLeft, stepsLeft, quietTicks, pollLog,
  selBefore, holdTicks, holdEntered, levelRun, graphRun,
  waitTicks, freshEntry, released1, released2, inCombo1, inCombo2, staged, stepSum,
  \* what the renderers of the Clock branch were last called with
  seen,
  \* the calls the latest tick handler invocation made besides updating state
  isrCalls,
  \* the bus transaction in progress in the sensor path
  bus,
  \* the renderers' function statics and the display calls of the latest render
  display

clockVars == <<systemClock, elapsedSeconds, showFootIcon>>
stepVars == <<totalSteps, wasStepThresholdExceeded, stepsPerSecond, currentSecondIndex,
              previousStepCount, inactivityCount>>
accVars == <<stepCount, wasAboveThreshold>>
paceVars == <<currentStepPace, displayedStepPace, currentDisplayPace, rawPace,
              stepRateHistory>>
envVars == <<b1, b2>>
menuVars == <<inMainMenu, currentMenuSelection, isGraphDisplayed, justEnteredMenu,
              redrawClock, use12HourFormat, timeFormatOption, inTimeFormatMenu,
              inTimeSetMenu, timeToSet, timeFieldSelected, dateToSet, dateFieldSelected>>
localVars == <<button1HoldCount, graphButton1HoldCount, comboPressCount,
               button1WasPressed, button2WasPressed, wasInMenu, button1Pressed,
               button2Pressed, tiltCount, currentTimeStr, isPM, ret>>
pureHist == <<samples, clock0, nAdv, pace0, nIter>>
sysHist == <<ticksLeft, pressesLeft, itersLeft, stepsLeft, quietTicks,
             pollLog, selBefore, holdTicks, holdEntered, levelRun,
             graphRun, waitTicks, freshEntry, released1, released2, inCombo1, inCombo2,
             staged, stepSum, seen>>
histVars == <<pureHist, sysHist>>
auxVars == <<isrCalls, bus, display>>
sysVars == <<menuVars, localVars, pc>>
vars == <<envVars, clockVars, stepVars, accVars, paceVars, sysVars, histVars, auxVars>>

\* static ClockTime systemClock = {4, 0, 0, 24, 1}
BootClock == [hours |-> 4, minutes |-> 0, seconds |-> 0, day |-> 24, month |-> 1]

InitEnv == b1 = FALSE /\ b2 = FALSE
InitClock == systemClock = BootClock /\ elapsedSeconds = 0 /\ showFootIcon = FALSE
InitSteps ==
  /\ totalSteps = 0 /\ wasStepThresholdExceeded = FALSE
  /\ stepsPerSecond = [i \in 0..(HISTORY_SIZE - 1) |-> 0] /\ currentSecondIndex = 0
  /\ previousStepCount = 0 /\ inactivityCount = 0
InitAcc == stepCount = 0 /\ wasAboveThreshold = FALSE
InitPace ==
  /\ currentStepPace = 0 /\ displayedStepPace = 0
  /\ currentDisplayPace = 0 /\ rawPace = 0
  /\ stepRateHistory = [i \in 0..(GRAPH_WIDTH - 1) |-> 0]
\* the static initializers of main.c, and main() about to enter its loop
InitMenu ==
  /\ inMainMenu = FALSE /\ currentMenuSelection = 0 /\ isGraphDisplayed = FALSE
  /\ justEnteredMenu = FALSE /\ redrawClock = FALSE
  /\ use12HourFormat = TRUE /\ timeFormatOption = 0
  /\ inTimeFormatMenu = FALSE /\ inTimeSetMenu = FALSE
  /\ timeToSet = [hours |-> 4, minutes |-> 0] /\ timeFieldSelected = 0
  /\ dateToSet = [day |-> 24, month |-> 1] /\ dateFieldSelected = 0
InitLocals ==
  /\ button1HoldCount = 0 /\ graphButton1HoldCount = 0 /\ comboPressCount = 0
  /\ button1WasPressed = FALSE /\ button2WasPressed = FALSE /\ wasInMenu = FALSE
  /\ button1Pressed = FALSE /\ button2Pressed = FALSE /\ tiltCount = 0
  /\ currentTimeStr = <<>> /\ isPM = FALSE /\ ret = <<>>
InitSysState == InitMenu /\ InitLocals /\ pc = "loop"
\* no renderer of the Clock branch has run: pace and face are the inputs of the
\* latest displayStepPace and of the latest renderClockDisplay that no tick
\* interrupted (valid, value...), cur the clock, format and redraw request the
\* call in progress started with, torn whether a tick ran since it started,
\* drawn the fields it has drawn so far, again whether the latest call had the
\* inputs of the one before it
SeenNone ==
  [pace |-> <<FALSE, 0>>, face |-> <<FALSE, BootClock, FALSE>>,
   cur |-> <<BootClock, FALSE, FALSE>>, torn |-> FALSE, drawn |-> {}, again |-> FALSE]
\* the budgets (ticks, presses, Clock-mode iterations, steps) are set by each
\* specification; a specification without the running system has none
InitSysNotes ==
  /\ quietTicks = 0 /\ pollLog = <<>> /\ selBefore = 0
  /\ holdTicks = 0 /\ holdEntered = FALSE /\ levelRun = 0 /\ graphRun = 0
  /\ waitTicks = 0 /\ freshEntry = FALSE
  /\ released1 = FALSE /\ released2 = FALSE /\ inCombo1 = FALSE /\ inCombo2 = FALSE
  /\ staged = [clock |-> BootClock, presses |-> 0] /\ stepSum = 0
InitSysHist ==
  /\ ticksLeft = 0 /\ pressesLeft = 0 /\ itersLeft = 0 /\ stepsLeft = 0
  /\ InitSysNotes /\ seen = SeenNone
\* no bus transaction in progress
BusIdle ==
  [op |-> "idle", k |-> 1, i |-> 0, tries |-> <<>>, low |-> -1, high |-> -1,
   id |-> -1, got |-> "none", value |-> 0, from |-> <<-1, -1>>, halted |-> FALSE, left |-> 0]
\* the renderers' statics as initialized (lines 210, 268-270, 692); nothing drawn
DispBoot ==
  [lastHours |-> 255, lastMinutes |-> 255, lastSeconds |-> 255,
   lastWas12Hour |-> FALSE, lastIsPM |-> FALSE, lastDay |-> 255, lastMonth |-> 255,
   previousText |-> -1, previousTime |-> <<>>, calls |-> <<>>]
InitAux == isrCalls = {} /\ bus = BusIdle /\ display = DispBoot
InitPureHist == samples = <<>> /\ clock0 = BootClock /\ nAdv = 0 /\ pace0 = 0 /\ nIter = 0
InitHist == InitPureHist /\ InitSysHist /\ InitAux

\* ------------------------------------------------------------ StepDetector
\* Accelerometer readings: at rest, exactly at each threshold on the high side,
\* above it by a fraction (magnitudes that are not integers) and by 4, exactly at
\* and above on the low side (free fall).
SampleInputs ==
  { [x |-> 0, y |-> 0, z |-> 256],      \* magnitude 1024, force 0
    [x |-> 306, y |-> 0, z |-> 0],      \* magnitude 1224, force 200
    [x |-> 306, y |-> 1, z |-> 0],      \* magnitude 1224.00659, force 200.00659
    [x |-> 481, y |-> 0, z |-> 0],      \* magnitude 1924, force 900
    [x |-> 481, y |-> 1, z |-> 0],      \* magnitude 1924.00415, force 900.00415
    [x |-> 482, y |-> 0, z |-> 0],      \* magnitude 1928, force 904
    [x |-> 31, y |-> 0, z |-> 0],       \* magnitude 124,  force 900
    [x |-> 0, y |-> 0, z |-> 0] }       \* magnitude 0,    force 1024

\* detectStep (main.c) on one reading: the edge detector and both counters
detectStep(a) ==
  LET exceedsThreshold == ExceedsThreshold(a)
  IN /\ totalSteps' = IF exceedsThreshold /\ ~wasStepThresholdExceeded
                      THEN U16(totalSteps + 1) ELSE totalSteps
     /\ stepsPerSecond' = IF exceedsThreshold /\ ~wasStepThresholdExceeded
                          THEN [stepsPerSecond EXCEPT ![currentSecondIndex] = U8(@ + 1)]
                          ELSE stepsPerSecond
     /\ wasStepThresholdExceeded' = exceedsThreshold

\* detectStep (working_acc.c) on one reading
accDetectStep(a) ==
  LET above == AccAbove(a)
  IN /\ stepCount' = IF above /\ ~wasAboveThreshold THEN U16(stepCount + 1) ELSE stepCount
     /\ wasAboveThreshold' = above

\* One reading, seen by both programs' detectors.
FeedSample ==
  /\ Len(samples) < MaxSamples
  /\ \E a \in SampleInputs :
       /\ detectStep(a)
       /\ accDetectStep(a)
       /\ samples' = Append(samples, a)
  /\ UNCHANGED <<auxVars, envVars, clockVars, currentSecondIndex, previousStepCount, inactivityCount,
                 paceVars, sysVars, clock0, nAdv, pace0, nIter, sysHist>>

InitStep ==
  InitEnv /\ InitClock /\ InitSteps /\ InitAcc /\ InitPace /\ InitSysState /\ InitHist
NextStep == FeedSample
SpecStep == InitStep /\ [][NextStep]_vars

\* Number of maximal runs of consecutive readings of seq that satisfy P.
Runs(seq, P(_)) ==
  Cardinality({i \in 1..Len(seq) : P(seq[i]) /\ (i = 1 \/ ~P(seq[i - 1]))})

\* C1 (as stated): the step count is the number of maximal runs of readings whose
\* dynamic force is at or above the threshold, and is 0 when every reading is
\* strictly below it.
C1_AsStated ==
  /\ totalSteps = Runs(samples, LAMBDA a : ForceAtOrAbove(a, STEP_THRESHOLD))
  /\ stepCount = Runs(samples, LAMBDA a : ForceAtOrAbove(a, ACC_THRESHOLD))

\* C1 (amended): the step count is, modulo 2^16, the number of maximal runs of
\* readings whose dynamic force is strictly above the threshold; a run counts once
\* however long it lasts, and readings that are all at or below the threshold
\* never increment the count.  Both detectors (threshold 900 and 200).
C1_StepsCountRuns ==
  /\ totalSteps = U16(Runs(samples, LAMBDA a : ForceAbove(a, STEP_THRESHOLD)))
  /\ stepCount = U16(Runs(samples, LAMBDA a : ForceAbove(a, ACC_THRESHOLD)))
  /\ (\A i \in 1..Len(samples) : ~ForceAbove(samples[i], STEP_THRESHOLD))
       => totalSteps = 0

\* a run of two readings above the threshold, then one below, then a new run
C1_Witness ==
  /\ Len(samples) = 4
  /\ ForceAbove(samples[1], STEP_THRESHOLD) /\ ForceAbove(samples[2], STEP_THRESHOLD)
  /\ DynamicForce(samples[3]) = F32(STEP_THRESHOLD)
  /\ ForceAbove(samples[4], STEP_THRESHOLD)
  /\ totalSteps = 2

\* ------------------------------------------------------------ ClockModel, checked
\* Valid clock values around every rollover: the last two seconds of a minute,
\* hour and day, on the first and the last days of every month.
ClockInputs ==
  { t \in [hours : {0, 4, 23}, minutes : {0, 59}, seconds : {0, 58, 59},
           day : {1, 24, 27, 28, 29, 30, 31}, month : 1..12] : ValidClock(t) }

\* _T1Interrupt's first statement, alone: incrementSystemTime(&systemClock)
AdvanceClock ==
  /\ nAdv < MaxAdvance
  /\ systemClock' = incrementSystemTime(systemClock)
  /\ nAdv' = nAdv + 1
  /\ UNCHANGED <<auxVars, envVars, elapsedSeconds, showFootIcon, stepVars, accVars, paceVars,
                 sysVars, samples, clock0, pace0, nIter, sysHist>>

InitClockModel ==
  /\ InitEnv /\ InitSteps /\ InitAcc /\ InitPace /\ InitSysState /\ InitSysHist /\ InitAux
  /\ systemClock \in ClockInputs /\ elapsedSeconds = 0 /\ showFootIcon = FALSE
  /\ samples = <<>> /\ clock0 = systemClock /\ nAdv = 0 /\ pace0 = 0 /\ nIter = 0
NextClock == AdvanceClock
SpecClock == InitClockModel /\ [][NextClock]_vars

\* The 365-day calendar, independently of the code: a clock value as a number of
\* seconds since 1/1 00:00:00, and back.
RECURSIVE DaysBefore(_)
DaysBefore(m) == IF m = 1 THEN 0 ELSE DaysBefore(m - 1) + DAYS_PER_MONTH[m - 1]
SecondOfYear(t) ==
  (((DaysBefore(t.month) + t.day - 1) * 24 + t.hours) * 60 + t.minutes) * 60 + t.seconds
MonthOfDay(d) == CHOOSE m \in 1..12 : DaysBefore(m) <= d /\ d < DaysBefore(m) + DAYS_PER_MONTH[m]
ClockOfSecond(n) ==
  LET d == n \div 86400
      m == MonthOfDay(d)
  IN [hours |-> (n \div 3600) % 24, minutes |-> (n \div 60) % 60, seconds |-> n % 60,
      day |-> d - DaysBefore(m) + 1, month |-> m]
AddSeconds(t, n) == ClockOfSecond((SecondOfYear(t) + n) % (365 * 86400))

\* C2: from every valid clock value, N applications of incrementSystemTime give
\* the clock value N seconds later in the 365-day calendar of DAYS_PER_MONTH
\* (carry into minutes, hours, day, month; month 12 rolls over to month 1).
C2_AdvanceIsAddSeconds == systemClock = AddSeconds(clock0, nAdv)

\* the two rollovers the claim names, and the turn of the year, have been taken
C2_Witness ==
  /\ nAdv >= 2
  /\ clock0.hours = 23 /\ clock0.minutes = 59 /\ clock0.seconds >= 58
  /\ \/ clock0.day = 31 /\ clock0.month = 1 /\ systemClock.day = 1 /\ systemClock.month = 2
     \/ clock0.day = 28 /\ clock0.month = 2 /\ systemClock.day = 1 /\ systemClock.month = 3
     \/ clock0.day = 31 /\ clock0.month = 12 /\ systemClock.day = 1 /\ systemClock.month = 1
  /\ systemClock.hours = 0 /\ systemClock.minutes = 0

\* ------------------------------------------------------------ PaceEstimator
\* main(), lines 920-929: one smoothing step of displayedStepPace toward rawPace;
\* here without the upper clamp
SmoothPaceUnclamped(disp, raw) ==
  LET d1 == IF disp < raw
            THEN (IF disp + PACE_STEP > raw THEN raw ELSE disp + PACE_STEP)
            ELSE IF disp > raw
                 THEN (IF disp - PACE_STEP < raw THEN raw ELSE disp - PACE_STEP)
                 ELSE disp
  IN IF 2 * d1 < 1 THEN 0 ELSE d1

\* here moving by 1.0 per iteration instead of 2.0
SmoothPaceSlow(disp, raw) ==
  LET d1 == IF disp < raw
            THEN (IF disp + 1 > raw THEN raw ELSE disp + 1)
            ELSE IF disp > raw
                 THEN (IF disp - 1 < raw THEN raw ELSE disp - 1)
                 ELSE disp
  IN IF 2 * d1 < 1 THEN 0 ELSE IF d1 > PACE_MAX THEN PACE_MAX ELSE d1

SmoothPace(disp, raw) ==
  LET d1 == IF disp < raw
            THEN (IF disp + PACE_STEP > raw THEN raw ELSE disp + PACE_STEP)
            ELSE IF disp > raw
                 THEN (IF disp - PACE_STEP < raw THEN raw ELSE disp - PACE_STEP)
                 ELSE disp
  IN IF 2 * d1 < 1 THEN 0 ELSE IF d1 > PACE_MAX THEN PACE_MAX ELSE d1

\* rawPace = (float)stepsThisSecond * 60.0f, for the step counts of one second
PaceOfSteps(stepsThisSecond) == stepsThisSecond * PACE_PER_STEP
PaceTargets == { PaceOfSteps(k) : k \in 0..MaxPaceSteps }

\* lines 917-929 of one Clock-mode iteration (the locals are kept as state)
smoothDisplayedPace ==
  /\ currentDisplayPace' = displayedStepPace
  /\ rawPace' = currentStepPace
  /\ displayedStepPace' = SmoothPace(displayedStepPace, currentStepPace)

PaceIterate ==
  /\ nIter < MaxIter
  /\ smoothDisplayedPace
  /\ nIter' = nIter + 1
  /\ UNCHANGED <<auxVars, envVars, clockVars, stepVars, accVars, currentStepPace, stepRateHistory,
                 sysVars, samples, clock0, nAdv, pace0, sysHist>>

\* the tick handler stores a new rawPace (line 809); the convergence count restarts
PaceRetarget ==
  /\ \E p \in PaceTargets \ {currentStepPace} : currentStepPace' = p
  /\ pace0' = displayedStepPace
  /\ nIter' = 0
  /\ UNCHANGED <<auxVars, envVars, clockVars, stepVars, accVars, displayedStepPace,
                 currentDisplayPace, rawPace, stepRateHistory, sysVars, samples, clock0,
                 nAdv, sysHist>>

\* displayedStepPace starts at 0 and moves in steps of 2 or onto a multiple of 60
InitPaceModel ==
  /\ InitEnv /\ InitClock /\ InitSteps /\ InitAcc /\ InitSysState /\ InitSysHist /\ InitAux
  /\ currentStepPace \in PaceTargets
  /\ displayedStepPace \in { 2 * k : k \in 0..(PACE_MAX \div 2) }
  /\ currentDisplayPace = displayedStepPace /\ rawPace = currentStepPace
  /\ stepRateHistory = [i \in 0..(GRAPH_WIDTH - 1) |-> 0]
  /\ samples = <<>> /\ clock0 = BootClock /\ nAdv = 0
  /\ pace0 = displayedStepPace /\ nIter = 0
NextPace == PaceIterate \/ PaceRetarget
SpecPace == InitPaceModel /\ [][NextPace]_vars

CeilDiv(a, b) == (a + b - 1) \div b

\* C4: after every Clock-mode iteration displayedStepPace is in [0, 100], differs
\* from its value before the iteration by at most 2.0, has not moved past the
\* rawPace read in the iteration, and is never a non-zero value below 0.5.
C4_PaceStepBounded ==
  /\ displayedStepPace >= 0 /\ displayedStepPace <= PACE_MAX
  /\ Abs(displayedStepPace - currentDisplayPace) <= PACE_STEP
  /\ (currentDisplayPace < rawPace => displayedStepPace <= rawPace)
  /\ (currentDisplayPace > rawPace => displayedStepPace >= rawPace)
  /\ (2 * displayedStepPace < 1 => displayedStepPace = 0)

\* a rising iteration toward a target above 100 has been clamped at 100
C4_Witness ==
  /\ nIter >= 1
  /\ currentDisplayPace = PACE_MAX /\ rawPace > PACE_MAX
  /\ displayedStepPace = PACE_MAX

\* C5 (as stated): with the target unchanged, displayedStepPace is within 2.0 of
\* the target after ceil(|target - initial| / 2.0) iterations and stays there.
C5_AsStated ==
  nIter >= CeilDiv(Abs(currentStepPace - pace0), PACE_STEP)
    => Abs(displayedStepPace - currentStepPace) <= PACE_STEP

\* C5 (amended): with the target unchanged, displayedStepPace is within 2.0 of
\* min(target, 100) after ceil(|target - initial| / 2.0) iterations and stays there.
C5_ConvergesToClampedTarget ==
  nIter >= CeilDiv(Abs(currentStepPace - pace0), PACE_STEP)
    => Abs(displayedStepPace - Min(currentStepPace, PACE_MAX)) <= PACE_STEP

\* a full-range fall (100 to 0) has taken its 50 iterations and has arrived
C5_Witness ==
  /\ pace0 = PACE_MAX /\ currentStepPace = 0
  /\ nIter = CeilDiv(PACE_MAX, PACE_STEP)
  /\ displayedStepPace = 0


\* ------------------------------------------------------------ sensor bus path
\* readAccelerometerAxis (lines 133-150) and initializeAccelerometer (lines
\* 154-181); readAxis and initAccelerometer of working_acc.c are the same code.
BUS_RETRIES == 3
DEVICE_ID == 229
MaxBusOps == 2

\* the bus calls of an operation, in order
CallsOf(op) ==
  IF op = "init" THEN <<"id", "power", "format">> ELSE <<"lsb", "msb">>
\* bytes a transfer can deliver; -1 stands for the content of a byte that no
\* successful transfer has written
BusData == {0, 1, DEVICE_ID, 255}
\* the test that ends a retry loop (lines 137, 144, 159, 167, 175)
CallSucceeded(call, ok, data) == ok /\ (call = "id" => data = DEVICE_ID)
\* lines 139, 146, 161, 169, 177: the attempt after which a failure is fatal; and
\* the same allowing one attempt more
LastAttemptLate(i) == i = BUS_RETRIES
LastAttempt(i) == i = BUS_RETRIES - 1
\* line 150: ((int16_t)highByte << 8) | lowByte
AxisValue(high, low) ==
  LET v == high * 256 + low IN IF v >= 32768 THEN v - 65536 ELSE v

InitBus ==
  /\ InitEnv /\ InitClock /\ InitSteps /\ InitAcc /\ InitPace /\ InitSysState
  /\ InitPureHist /\ InitSysHist /\ isrCalls = {} /\ display = DispBoot
  /\ bus = [BusIdle EXCEPT !.left = MaxBusOps]

\* a sensor operation starts: the device set-up, or the read of one axis
BusStart ==
  /\ bus.op = "idle" /\ ~bus.halted /\ bus.left > 0
  /\ \E op \in {"init", "axis"} :
       bus' = [bus EXCEPT !.op = op, !.k = 1, !.i = 0, !.tries = <<>>,
                          !.low = -1, !.high = -1, !.id = -1, !.got = "none", !.value = 0,
                          !.from = <<-1, -1>>, !.left = bus.left - 1]
  /\ UNCHANGED <<b1, b2, systemClock, elapsedSeconds, showFootIcon, totalSteps,
                 wasStepThresholdExceeded, stepsPerSecond, currentSecondIndex,
                 previousStepCount, inactivityCount, stepCount, wasAboveThreshold,
                 currentStepPace, displayedStepPace, currentDisplayPace, rawPace,
                 stepRateHistory, inMainMenu, currentMenuSelection, isGraphDisplayed,
                 justEnteredMenu, redrawClock, use12HourFormat, timeFormatOption,
                 inTimeFormatMenu, inTimeSetMenu, timeToSet, timeFieldSelected,
                 dateToSet, dateFieldSelected, button1HoldCount, graphButton1HoldCount,
                 comboPressCount, button1WasPressed, button2WasPressed, wasInMenu,
                 button1Pressed, button2Pressed, tiltCount, currentTimeStr, isPM, ret,
                 pc, samples, clock0, nAdv, pace0, nIter, ticksLeft, pressesLeft,
                 itersLeft, stepsLeft, quietTicks, pollLog, selBefore, holdTicks,
                 holdEntered, levelRun, graphRun, waitTicks, freshEntry, released1,
                 released2, inCombo1, inCombo2, staged, stepSum, seen, isrCalls,
                 display>>

\* one attempt of the current bus call: one pass through the body of its loop
BusAttempt ==
  /\ bus.op # "idle" /\ ~bus.halted
  /\ \E ok \in BOOLEAN, data \in BusData, junk \in BOOLEAN :
       LET call == CallsOf(bus.op)[bus.k]
           won == CallSucceeded(call, ok, data)
           \* what the transfer leaves in the destination byte
           byte == IF ok THEN data ELSE IF junk THEN -1 ELSE
                   IF call = "lsb" THEN bus.low
                   ELSE IF call = "msb" THEN bus.high ELSE bus.id
           b1_ == [bus EXCEPT !.tries = Append(bus.tries, <<call, won>>),
                              !.low = IF call = "lsb" THEN byte ELSE bus.low,
                              !.high = IF call = "msb" THEN byte ELSE bus.high,
                              !.id = IF call = "id" THEN byte ELSE bus.id,
                              !.from = IF won /\ call = "lsb" THEN <<data, bus.from[2]>>
                                       ELSE IF won /\ call = "msb"
                                            THEN <<bus.from[1], data>> ELSE bus.from]
       IN IF won
          THEN IF bus.k < Len(CallsOf(bus.op))
               THEN bus' = [b1_ EXCEPT !.k = bus.k + 1, !.i = 0]
               ELSE bus' = [b1_ EXCEPT !.op = "idle",
                                       !.got = IF bus.op = "axis" THEN "axis" ELSE "ready",
                                       !.value = IF bus.op = "axis"
                                                 THEN AxisValue(b1_.high, b1_.low)
                                                 ELSE 0]
          ELSE IF LastAttempt(bus.i)
               THEN bus' = [b1_ EXCEPT !.halted = TRUE]
               ELSE bus' = [b1_ EXCEPT !.i = bus.i + 1]
  /\ UNCHANGED <<b1, b2, systemClock, elapsedSeconds, showFootIcon, totalSteps,
                 wasStepThresholdExceeded, stepsPerSecond, currentSecondIndex,
                 previousStepCount, inactivityCount, stepCount, wasAboveThreshold,
                 currentStepPace, displayedStepPace, currentDisplayPace, rawPace,
                 stepRateHistory, inMainMenu, currentMenuSelection, isGraphDisplayed,
                 justEnteredMenu, redrawClock, use12HourFormat, timeFormatOption,
                 inTimeFormatMenu, inTimeSetMenu, timeToSet, timeFieldSelected,
                 dateToSet, dateFieldSelected, button1HoldCount, graphButton1HoldCount,
                 comboPressCount, button1WasPressed, button2WasPressed, wasInMenu,
                 button1Pressed, button2Pressed, tiltCount, currentTimeStr, isPM, ret,
                 pc, samples, clock0, nAdv, pace0, nIter, ticksLeft, pressesLeft,
                 itersLeft, stepsLeft, quietTicks, pollLog, selBefore, holdTicks,
                 holdEntered, levelRun, graphRun, waitTicks, freshEntry, released1,
                 released2, inCombo1, inCombo2, staged, stepSum, seen, isrCalls,
                 display>>

NextBus == BusStart \/ BusAttempt
SpecBus == InitBus /\ [][NextBus]_vars

\* the attempts made so far of one bus call of the current operation
TriesOf(call) == SelectSeq(bus.tries, LAMBDA t : t[1] = call)
\* C16: every bus call of the sensor path is attempted at most 3 times; its first
\* successful attempt ends the retries and the next call starts only after it; the
\* system is halted exactly when a call has failed 3 times; an axis value is made
\* of the bytes delivered by the two successful transfers only.
C16_BusRetries ==
  /\ \A call \in {"id", "power", "format", "lsb", "msb"} :
       LET t == TriesOf(call)
       IN /\ Len(t) <= 3
          /\ \A n \in 1..Len(t) : t[n][2] => n = Len(t)
  /\ \A n \in 1..Len(bus.tries) :
       (n > 1 /\ bus.tries[n][1] # bus.tries[n - 1][1]) => bus.tries[n - 1][2]
  /\ bus.halted <=>
       \E call \in {"id", "power", "format", "lsb", "msb"} :
         Len(TriesOf(call)) = 3 /\ \A n \in 1..3 : ~TriesOf(call)[n][2]
  /\ bus.got = "axis"
       => /\ ~bus.halted
          /\ bus.from[1] \in BusData /\ bus.from[2] \in BusData
          /\ bus.value = AxisValue(bus.from[2], bus.from[1])

\* an axis read whose low byte needed all three attempts (two failures that left
\* an unwritten byte behind) has delivered a value
C16_Witness ==
  /\ bus.got = "axis"
  /\ Len(TriesOf("lsb")) = 3
  /\ bus.value = AxisValue(255, 1)

\* ------------------------------------------------------------ cached renderers
\* renderClockDisplay (lines 267-336), displayStepPace (lines 209-228) and
\* updateMenuTimeDisplay (lines 691-715). A display call is recorded as
\* <<field, kind>>: a black rectangle or a black string is an "erase", a white
\* string a "draw". An empty text buffer is -1 (pace) or <<>> (menu time).
\* lines 284-292 and 696-700: the hour shown in the active format
DisplayHours(hours, is12Hour) ==
  IF ~is12Hour THEN hours
  ELSE IF hours = 0 THEN 12 ELSE IF hours > 12 THEN hours - 12 ELSE hours
\* lines 287-288
IsPM(hours, is12Hour) == is12Hour /\ hours >= 12
\* line 221: sprintf("%u", (uint16_t)(displayedStepPace + 0.5f))
PaceText(pace) == (2 * pace + 1) \div 2
\* lines 702-708: the text hh:mm:ss as its three numbers
MenuTimeText(time, is12Hour) ==
  <<DisplayHours(time.hours, is12Hour), time.minutes, time.seconds>>
\* lines 223 and 710: strcmp(previous, current) != 0; and a comparison that always
\* reports a difference
TextChangedAlways(previous, current) == TRUE
TextChanged(previous, current) == previous # current

\* lines 275-281: the caches after a redraw request was taken
AfterRedraw(d, is12Hour, redraw) ==
  IF redraw
  THEN [d EXCEPT !.lastHours = 255, !.lastMinutes = 255, !.lastSeconds = 255,
                 !.lastDay = 255, !.lastMonth = 255,
                 !.lastWas12Hour = ~is12Hour, !.lastIsPM = TRUE]
  ELSE d

\* displayStepPace
RenderPace(d, pace) ==
  IF 2 * pace <= 1
  THEN IF d.previousText # -1
       THEN [d EXCEPT !.previousText = -1, !.calls = <<<<"pace", "erase">>>>]
       ELSE [d EXCEPT !.calls = <<>>]
  ELSE IF TextChanged(d.previousText, PaceText(pace))
       THEN [d EXCEPT !.previousText = PaceText(pace),
                      !.calls = <<<<"pace", "erase">>, <<"pace", "draw">>>>]
       ELSE [d EXCEPT !.calls = <<>>]

\* updateMenuTimeDisplay
RenderMenuTime(d, time, is12Hour) ==
  IF TextChanged(d.previousTime, MenuTimeText(time, is12Hour))
  THEN [d EXCEPT !.previousTime = MenuTimeText(time, is12Hour),
                 !.calls = <<<<"menuTime", "erase">>, <<"menuTime", "draw">>>>]
  ELSE [d EXCEPT !.calls = <<>>]

\* the fields a call sequence touches, and those it draws (a white string)
FieldsOf(calls) == { calls[n][1] : n \in 1..Len(calls) }
DrawnFields(calls) == { calls[n][1] : n \in { k \in 1..Len(calls) : calls[k][2] = "draw" } }
\* the calls a step of a renderer has added to those of d
CallsAdded(d, e) == SubSeq(e.calls, Len(d.calls) + 1, Len(e.calls))
\* every draw in a call sequence comes after an erase of the same field
ErasedFirst(calls) ==
  \A n \in 1..Len(calls) :
    calls[n][2] = "draw" => \E k \in 1..(n - 1) : calls[k] = <<calls[n][1], "erase">>

\* the note of the renderers' inputs: renderClockDisplay starts, goes on, ends
SeenStart(s, time, is12Hour, redraw, added) ==
  [s EXCEPT !.cur = <<time, is12Hour, redraw>>, !.torn = FALSE, !.drawn = DrawnFields(added)]
SeenMore(s, added) == [s EXCEPT !.drawn = @ \cup DrawnFields(added)]
SeenEnd(s) ==
  [s EXCEPT !.face = IF s.torn THEN SeenNone.face ELSE <<TRUE, s.cur[1], s.cur[2]>>,
            !.again = ~s.torn /\ ~s.cur[3] /\ s.face = <<TRUE, s.cur[1], s.cur[2]>>,
            !.cur = SeenNone.cur, !.torn = FALSE, !.drawn = {}]
\* the note after the clock face was drawn for `face` and the pace `pace` in
\* 12-hour mode
SeenDrawn(face, pace) == [SeenNone EXCEPT !.pace = <<TRUE, pace>>, !.face = <<TRUE, face, TRUE>>]
\* ------------------------------------------------------------ the running system
\* budgets of a run from power-on, and of a run that starts in MainMenu
MaxTicks == 3
MaxPresses == 2
MaxClockIters == 2
MaxSteps == 1
MenuTicks == 1
MenuPresses == 4
MenuClockIters == 1
MenuSteps == 1
HeldTicks == 3
HeldPresses == 2
HeldClockIters == 1
HeldSteps == 1
WalkTicks == 2
WalkPresses == 1
WalkClockIters == 2
WalkSteps == 1
\* budgets of a run that starts in MainMenu on a watch that has been in use
UsedTicks == 1
UsedPresses == 4
UsedClockIters == 2
UsedSteps == 1
LONG_PRESS_TICKS == 2
COMBO_POLLS == 3
GRAPH_HOLD_POLLS == 20
TILT_THRESHOLD == 600
TILT_STREAK == 1

\* ---- input lines: the user presses and releases the two buttons
Press1 ==
  /\ pressesLeft > 0 /\ ~b1
  /\ b1' = TRUE /\ pressesLeft' = pressesLeft - 1
  /\ holdEntered' = FALSE /\ freshEntry' = FALSE
  /\ UNCHANGED <<b2, systemClock, elapsedSeconds, showFootIcon, totalSteps,
                 wasStepThresholdExceeded, stepsPerSecond, currentSecondIndex,
                 previousStepCount, inactivityCount, stepCount, wasAboveThreshold,
                 currentStepPace, displayedStepPace, currentDisplayPace, rawPace,
                 stepRateHistory, inMainMenu, currentMenuSelection, isGraphDisplayed,
                 justEnteredMenu, redrawClock, use12HourFormat, timeFormatOption,
                 inTimeFormatMenu, inTimeSetMenu, timeToSet, timeFieldSelected,
                 dateToSet, dateFieldSelected, button1HoldCount, graphButton1HoldCount,
                 comboPressCount, button1WasPressed, button2WasPressed, wasInMenu,
                 button1Pressed, button2Pressed, tiltCount, currentTimeStr, isPM, ret,
                 pc, samples, clock0, nAdv, pace0, nIter, ticksLeft, itersLeft,
                 stepsLeft, quietTicks, pollLog, selBefore, holdTicks, levelRun,
                 graphRun, waitTicks, released1, released2, inCombo1, inCombo2, staged,
                 stepSum, seen, isrCalls, bus, display>>

Release1 ==
  /\ b1
  /\ b1' = FALSE
  /\ holdEntered' = FALSE
  \* this press is over: it is no longer the one the foreground loop sampled
  /\ released1' = TRUE /\ inCombo1' = FALSE
  /\ UNCHANGED <<b2, systemClock, elapsedSeconds, showFootIcon, totalSteps,
                 wasStepThresholdExceeded, stepsPerSecond, currentSecondIndex,
                 previousStepCount, inactivityCount, stepCount, wasAboveThreshold,
                 currentStepPace, displayedStepPace, currentDisplayPace, rawPace,
                 stepRateHistory, inMainMenu, currentMenuSelection, isGraphDisplayed,
                 justEnteredMenu, redrawClock, use12HourFormat, timeFormatOption,
                 inTimeFormatMenu, inTimeSetMenu, timeToSet, timeFieldSelected,
                 dateToSet, dateFieldSelected, button1HoldCount, graphButton1HoldCount,
                 comboPressCount, button1WasPressed, button2WasPressed, wasInMenu,
                 button1Pressed, button2Pressed, tiltCount, currentTimeStr, isPM, ret,
                 pc, samples, clock0, nAdv, pace0, nIter, ticksLeft, pressesLeft,
                 itersLeft, stepsLeft, quietTicks, pollLog, selBefore, holdTicks,
                 levelRun, graphRun, waitTicks, freshEntry, released2, inCombo2,
                 staged, stepSum, seen, isrCalls, bus, display>>

Press2 ==
  /\ pressesLeft > 0 /\ ~b2
  /\ b2' = TRUE /\ pressesLeft' = pressesLeft - 1
  /\ freshEntry' = FALSE
  /\ UNCHANGED <<b1, systemClock, elapsedSeconds, showFootIcon, totalSteps,
                 wasStepThresholdExceeded, stepsPerSecond, currentSecondIndex,
                 previousStepCount, inactivityCount, stepCount, wasAboveThreshold,
                 currentStepPace, displayedStepPace, currentDisplayPace, rawPace,
                 stepRateHistory, inMainMenu, currentMenuSelection, isGraphDisplayed,
                 justEnteredMenu, redrawClock, use12HourFormat, timeFormatOption,
                 inTimeFormatMenu, inTimeSetMenu, timeToSet, timeFieldSelected,
                 dateToSet, dateFieldSelected, button1HoldCount, graphButton1HoldCount,
                 comboPressCount, button1WasPressed, button2WasPressed, wasInMenu,
                 button1Pressed, button2Pressed, tiltCount, currentTimeStr, isPM, ret,
                 pc, samples, clock0, nAdv, pace0, nIter, ticksLeft, itersLeft,
                 stepsLeft, quietTicks, pollLog, selBefore, holdTicks, holdEntered,
                 levelRun, graphRun, waitTicks, released1, released2, inCombo1,
                 inCombo2, staged, stepSum, seen, isrCalls, bus, display>>

Release2 ==
  /\ b2
  /\ b2' = FALSE
  /\ released2' = TRUE /\ inCombo2' = FALSE
  /\ UNCHANGED <<b1, systemClock, elapsedSeconds, showFootIcon, totalSteps,
                 wasStepThresholdExceeded, stepsPerSecond, currentSecondIndex,
                 previousStepCount, inactivityCount, stepCount, wasAboveThreshold,
                 currentStepPace, displayedStepPace, currentDisplayPace, rawPace,
                 stepRateHistory, inMainMenu, currentMenuSelection, isGraphDisplayed,
                 justEnteredMenu, redrawClock, use12HourFormat, timeFormatOption,
                 inTimeFormatMenu, inTimeSetMenu, timeToSet, timeFieldSelected,
                 dateToSet, dateFieldSelected, button1HoldCount, graphButton1HoldCount,
                 comboPressCount, button1WasPressed, button2WasPressed, wasInMenu,
                 button1Pressed, button2Pressed, tiltCount, currentTimeStr, isPM, ret,
                 pc, samples, clock0, nAdv, pace0, nIter, ticksLeft, pressesLeft,
                 itersLeft, stepsLeft, quietTicks, pollLog, selBefore, holdTicks,
                 holdEntered, levelRun, graphRun, waitTicks, freshEntry, released1,
                 inCombo1, staged, stepSum, seen, isrCalls, bus, display>>

\* the blocking waits of main(), lines 859, 872 and 886
MainWaits == {"waitB1", "waitB2", "waitCombo"}
\* the test that ends a wait for one line, while (PORTAbits.RAxx == 0); and a
\* wait that also gives up by itself
LineReleasedOrTimeout(pressed) == TRUE
LineReleased(pressed) == ~pressed

\* renderClockDisplay in progress in the foreground, lines 267-336
RcPcs == {"rcHours", "rcMinutes", "rcMinutesSet", "rcSeconds", "rcSecondsSet", "rcDay", "rcMonth",
          "rcDaySet", "rcMonthSet"}

\* renderMainMenu called by the tick handler, lines 674-688: of the renderers'
\* caches it rewrites the menu time's (updateMenuTimeDisplay, line 682); nothing
\* interrupts the handler; d is the record of caches
renderMainMenu(d, time, is12Hour) == RenderMenuTime(d, time, is12Hour)

\* ---- TimeBase: _T1Interrupt, one invocation (it runs to completion)
\* lines 773-788: the button-1 hold counter and the menu-entry request
TickHold ==
  IF ~isGraphDisplayed
  THEN IF b1
       THEN LET h == U8(button1HoldCount + 1)
            IN IF h >= LONG_PRESS_TICKS /\ ~inMainMenu
               THEN /\ inMainMenu' = TRUE
                    /\ currentMenuSelection' = 0
                    /\ button1HoldCount' = 0
                    \* line 781 and line 784
                    /\ isrCalls' = {"renderMainMenu", "DELAY_milliseconds"}
                    /\ display' = renderMainMenu(display, systemClock', use12HourFormat)
               ELSE /\ button1HoldCount' = h
                    /\ isrCalls' = {"DELAY_milliseconds"}
                    /\ UNCHANGED <<inMainMenu, currentMenuSelection, display>>
       ELSE /\ button1HoldCount' = 0
            /\ isrCalls' = {}
            /\ UNCHANGED <<inMainMenu, currentMenuSelection, display>>
  ELSE /\ isrCalls' = {}
       /\ UNCHANGED <<inMainMenu, currentMenuSelection, button1HoldCount, display>>

\* lines 797-809: rawPace from the steps of the last second, with inactivity decay
DerivedPace(stepsThisSecond, inactivity) ==
  IF stepsThisSecond = 0 /\ inactivity >= INACTIVITY_TICKS
  THEN 0 ELSE PaceOfSteps(stepsThisSecond)

\* line 797: uint16_t stepsThisSecond = totalSteps - previousStepCount
StepsThisSecond(total, previous) == U16(total - previous)
\* line 798: previousStepCount = totalSteps; and the same leaving the count alone
PreviousAfterDeriveKept(total, previous) == previous
PreviousAfterDerive(total, previous) == total

\* lines 790-810: bucket rotation and pace derivation, skipped in menu mode
TickPace ==
  IF ~inMainMenu'
  THEN LET idx == (currentSecondIndex + 1) % HISTORY_SIZE
           stepsThisSecond == StepsThisSecond(totalSteps, previousStepCount)
           inactivity == IF stepsThisSecond = 0 THEN U8(inactivityCount + 1) ELSE 0
       IN /\ currentSecondIndex' = idx
          /\ stepsPerSecond' = [stepsPerSecond EXCEPT ![idx] = 0]
          /\ previousStepCount' = PreviousAfterDerive(totalSteps, previousStepCount)
          \* the sum of all stepsThisSecond computed so far
          /\ stepSum' = stepSum + stepsThisSecond
          /\ inactivityCount' = inactivity
          /\ currentStepPace' = DerivedPace(stepsThisSecond, inactivity)
  ELSE /\ UNCHANGED <<currentSecondIndex, stepsPerSecond, previousStepCount,
                      inactivityCount, currentStepPace, stepSum>>

Tick ==
  /\ ticksLeft > 0
  /\ seen' = IF pc \in RcPcs \ {"rcHours"} THEN [seen EXCEPT !.torn = TRUE] ELSE seen
  /\ systemClock' = incrementSystemTime(systemClock)
  \* uint32_t: every run of the model stays far below 2^32
  /\ elapsedSeconds' = elapsedSeconds + 1
  /\ showFootIcon' = ~showFootIcon
  /\ TickHold
  /\ TickPace
  /\ ticksLeft' = ticksLeft - 1
  /\ quietTicks' = Min(quietTicks + 1, 3)
  \* the latest consecutive ticks at which the handler read button 1 pressed
  \* (two at most), and whether the current hold has already opened the menu
  /\ holdTicks' = IF b1 /\ ~isGraphDisplayed THEN Min(holdTicks + 1, 2) ELSE 0
  /\ holdEntered' = (holdEntered \/ (~inMainMenu /\ inMainMenu'))
  \* the ticks that fell into the current wait of the main loop (two at most)
  /\ waitTicks' = IF pc \in MainWaits THEN Min(waitTicks + 1, 2) ELSE waitTicks
  \* the menu has just been opened by a hold, with button 2 up
  /\ freshEntry' = IF ~inMainMenu /\ inMainMenu' THEN ~b2 ELSE freshEntry
  \* what the clock reads if only ticks change it while a set page is open
  /\ staged' = IF inTimeSetMenu
               THEN [staged EXCEPT !.clock = incrementSystemTime(staged.clock)]
               ELSE staged
  /\ UNCHANGED <<b1, b2, totalSteps, wasStepThresholdExceeded, stepCount,
                 wasAboveThreshold, displayedStepPace, currentDisplayPace, rawPace,
                 stepRateHistory, isGraphDisplayed, justEnteredMenu, redrawClock,
                 use12HourFormat, timeFormatOption, inTimeFormatMenu, inTimeSetMenu,
                 timeToSet, timeFieldSelected, dateToSet, dateFieldSelected,
                 graphButton1HoldCount, comboPressCount, button1WasPressed,
                 button2WasPressed, wasInMenu, button1Pressed, button2Pressed,
                 tiltCount, currentTimeStr, isPM, ret, pc, samples, clock0, nAdv,
                 pace0, nIter, pressesLeft, itersLeft, stepsLeft, pollLog, selBefore,
                 levelRun, graphRun, released1, released2, inCombo1, inCombo2, bus>>

\* ---- main(): the foreground loop
\* lines 840-841
FgLoop ==
  /\ pc = "loop"
  /\ button1Pressed' = b1 /\ button2Pressed' = b2
  /\ released1' = FALSE /\ released2' = FALSE
  /\ pc' = "branch"
  /\ UNCHANGED <<b1, b2, systemClock, elapsedSeconds, showFootIcon, totalSteps,
                 wasStepThresholdExceeded, stepsPerSecond, currentSecondIndex,
                 previousStepCount, inactivityCount, stepCount, wasAboveThreshold,
                 currentStepPace, displayedStepPace, currentDisplayPace, rawPace,
                 stepRateHistory, inMainMenu, currentMenuSelection, isGraphDisplayed,
                 justEnteredMenu, redrawClock, use12HourFormat, timeFormatOption,
                 inTimeFormatMenu, inTimeSetMenu, timeToSet, timeFieldSelected,
                 dateToSet, dateFieldSelected, button1HoldCount, graphButton1HoldCount,
                 comboPressCount, button1WasPressed, button2WasPressed, wasInMenu,
                 tiltCount, currentTimeStr, isPM, ret, samples, clock0, nAdv, pace0,
                 nIter, ticksLeft, pressesLeft, itersLeft, stepsLeft, quietTicks,
                 pollLog, selBefore, holdTicks, holdEntered, levelRun, graphRun,
                 waitTicks, freshEntry, inCombo1, inCombo2, staged, stepSum, seen,
                 isrCalls, bus, display>>

\* the readings (both buttons pressed or not) of the latest MainMenu polls, three
\* at most
Last3(s) == IF Len(s) <= 3 THEN s ELSE SubSeq(s, Len(s) - 2, Len(s))

\* line 856, and the same confirming one poll early
ComboConfirmedEarly(count) == count >= COMBO_POLLS - 1
ComboConfirmed(count) == count >= COMBO_POLLS

\* lines 884-897: the button-2 half of a non-combo menu poll, up to its wait
MenuButton2 ==
  IF button2Pressed /\ ~button2WasPressed
  THEN pc' = "waitB2" /\ UNCHANGED button2WasPressed
  ELSE /\ button2WasPressed' = IF ~button2Pressed THEN FALSE ELSE button2WasPressed
       /\ pc' = "menuEnd"

\* lines 843-870 and 906-913: the test of inMainMenu and what follows it up to the
\* next wait or shared access
FgBranch ==
  /\ pc = "branch"
  /\ waitTicks' = 0
  \* a press that a MainMenu poll has read as one half of a combo
  /\ inCombo1' = IF inMainMenu /\ ~justEnteredMenu /\ button1Pressed /\ button2Pressed
                 THEN ~released1 ELSE inCombo1
  /\ inCombo2' = IF inMainMenu /\ ~justEnteredMenu /\ button1Pressed /\ button2Pressed
                 THEN ~released2 ELSE inCombo2
  /\ IF inMainMenu
     THEN /\ IF justEnteredMenu
             \* lines 848-852 and 905
             THEN /\ justEnteredMenu' = FALSE
                  /\ button1WasPressed' = FALSE /\ button2WasPressed' = FALSE
                  /\ pc' = "mtHours" /\ ret' = <<"menuDone">>
                  /\ UNCHANGED <<comboPressCount, pollLog, wasInMenu>>
             ELSE /\ UNCHANGED <<justEnteredMenu, wasInMenu, ret>>
                  /\ pollLog' = Last3(Append(pollLog, button1Pressed /\ button2Pressed))
                  /\ IF button1Pressed /\ button2Pressed
                     THEN /\ comboPressCount' = U8(comboPressCount + 1)
                          /\ pc' = IF ComboConfirmed(comboPressCount')
                                   THEN "waitCombo" ELSE "menuEnd"
                          /\ UNCHANGED <<button1WasPressed, button2WasPressed>>
                     ELSE /\ comboPressCount' = 0
                          /\ IF button1Pressed /\ ~button1WasPressed
                             THEN /\ pc' = "waitB1"
                                  /\ UNCHANGED <<button1WasPressed, button2WasPressed>>
                             ELSE /\ button1WasPressed' =
                                       IF ~button1Pressed THEN FALSE ELSE button1WasPressed
                                  /\ MenuButton2
     ELSE /\ wasInMenu' = FALSE
          /\ pollLog' = <<>>
          /\ pc' = "detect"
          /\ UNCHANGED <<justEnteredMenu, comboPressCount, button1WasPressed,
                         button2WasPressed, ret>>
  /\ UNCHANGED <<b1, b2, systemClock, elapsedSeconds, showFootIcon, totalSteps,
                 wasStepThresholdExceeded, stepsPerSecond, currentSecondIndex,
                 previousStepCount, inactivityCount, stepCount, wasAboveThreshold,
                 currentStepPace, displayedStepPace, currentDisplayPace, rawPace,
                 stepRateHistory, inMainMenu, currentMenuSelection, isGraphDisplayed,
                 redrawClock, use12HourFormat, timeFormatOption, inTimeFormatMenu,
                 inTimeSetMenu, timeToSet, timeFieldSelected, dateToSet,
                 dateFieldSelected, button1HoldCount, graphButton1HoldCount,
                 button1Pressed, button2Pressed, tiltCount, currentTimeStr, isPM,
                 samples, clock0, nAdv, pace0, nIter, ticksLeft, pressesLeft,
                 itersLeft, stepsLeft, quietTicks, selBefore, holdTicks, holdEntered,
                 levelRun, graphRun, freshEntry, released1, released2, staged, stepSum,
                 seen, isrCalls, bus, display>>

\* lines 874-877, and the same with the wrap from 0 forgotten
SelectPreviousNoWrap(sel) == IF sel = 0 THEN 0 ELSE sel - 1
SelectPrevious(sel) == IF sel = 0 THEN MENU_ITEM_COUNT - 1 ELSE sel - 1
\* lines 888-891
SelectNext(sel) == IF sel = MENU_ITEM_COUNT - 1 THEN 0 ELSE sel + 1

\* lines 872-878: the wait for button 1's release, then the selection moves up
\* and the menu is drawn again (renderMainMenu: updateMenuTimeDisplay, line 682)
FgWaitB1 ==
  /\ pc = "waitB1" /\ LineReleased(b1)
  /\ waitTicks' = 0
  /\ selBefore' = currentMenuSelection
  /\ currentMenuSelection' = SelectPrevious(currentMenuSelection)
  /\ pc' = "mtHours" /\ ret' = <<"b1Done">>
  /\ UNCHANGED <<b1, b2, systemClock, elapsedSeconds, showFootIcon, totalSteps,
                 wasStepThresholdExceeded, stepsPerSecond, currentSecondIndex,
                 previousStepCount, inactivityCount, stepCount, wasAboveThreshold,
                 currentStepPace, displayedStepPace, currentDisplayPace, rawPace,
                 stepRateHistory, inMainMenu, isGraphDisplayed, justEnteredMenu,
                 redrawClock, use12HourFormat, timeFormatOption, inTimeFormatMenu,
                 inTimeSetMenu, timeToSet, timeFieldSelected, dateToSet,
                 dateFieldSelected, button1HoldCount, graphButton1HoldCount,
                 comboPressCount, button1WasPressed, button2WasPressed, wasInMenu,
                 button1Pressed, button2Pressed, tiltCount, currentTimeStr, isPM,
                 samples, clock0, nAdv, pace0, nIter, ticksLeft, pressesLeft,
                 itersLeft, stepsLeft, quietTicks, pollLog, holdTicks, holdEntered,
                 levelRun, graphRun, freshEntry, released1, released2, inCombo1,
                 inCombo2, staged, stepSum, seen, isrCalls, bus, display>>

\* lines 879-887: after the delay the press is marked as handled, and the
\* button-2 half follows
FgB1Done ==
  /\ pc = "b1Done"
  /\ button1WasPressed' = TRUE
  /\ MenuButton2
  /\ UNCHANGED <<b1, b2, systemClock, elapsedSeconds, showFootIcon, totalSteps,
                 wasStepThresholdExceeded, stepsPerSecond, currentSecondIndex,
                 previousStepCount, inactivityCount, stepCount, wasAboveThreshold,
                 currentStepPace, displayedStepPace, currentDisplayPace, rawPace,
                 stepRateHistory, inMainMenu, currentMenuSelection, isGraphDisplayed,
                 justEnteredMenu, redrawClock, use12HourFormat, timeFormatOption,
                 inTimeFormatMenu, inTimeSetMenu, timeToSet, timeFieldSelected,
                 dateToSet, dateFieldSelected, button1HoldCount, graphButton1HoldCount,
                 comboPressCount, wasInMenu, button1Pressed, button2Pressed, tiltCount,
                 currentTimeStr, isPM, ret, samples, clock0, nAdv, pace0, nIter,
                 ticksLeft, pressesLeft, itersLeft, stepsLeft, quietTicks, pollLog,
                 selBefore, holdTicks, holdEntered, levelRun, graphRun, waitTicks,
                 freshEntry, released1, released2, inCombo1, inCombo2, staged, stepSum,
                 seen, isrCalls, bus, display>>

\* lines 886-892
FgWaitB2 ==
  /\ pc = "waitB2" /\ LineReleased(b2)
  /\ selBefore' = currentMenuSelection
  /\ currentMenuSelection' = SelectNext(currentMenuSelection)
  /\ pc' = "mtHours" /\ ret' = <<"b2Done">>
  /\ UNCHANGED <<b1, b2, systemClock, elapsedSeconds, showFootIcon, totalSteps,
                 wasStepThresholdExceeded, stepsPerSecond, currentSecondIndex,
                 previousStepCount, inactivityCount, stepCount, wasAboveThreshold,
                 currentStepPace, displayedStepPace, currentDisplayPace, rawPace,
                 stepRateHistory, inMainMenu, isGraphDisplayed, justEnteredMenu,
                 redrawClock, use12HourFormat, timeFormatOption, inTimeFormatMenu,
                 inTimeSetMenu, timeToSet, timeFieldSelected, dateToSet,
                 dateFieldSelected, button1HoldCount, graphButton1HoldCount,
                 comboPressCount, button1WasPressed, button2WasPressed, wasInMenu,
                 button1Pressed, button2Pressed, tiltCount, currentTimeStr, isPM,
                 samples, clock0, nAdv, pace0, nIter, ticksLeft, pressesLeft,
                 itersLeft, stepsLeft, quietTicks, pollLog, holdTicks, holdEntered,
                 levelRun, graphRun, waitTicks, freshEntry, released1, released2,
                 inCombo1, inCombo2, staged, stepSum, seen, isrCalls, bus, display>>

\* lines 893-894
FgB2Done ==
  /\ pc = "b2Done"
  /\ button2WasPressed' = TRUE
  /\ pc' = "menuEnd"
  /\ UNCHANGED <<b1, b2, systemClock, elapsedSeconds, showFootIcon, totalSteps,
                 wasStepThresholdExceeded, stepsPerSecond, currentSecondIndex,
                 previousStepCount, inactivityCount, stepCount, wasAboveThreshold,
                 currentStepPace, displayedStepPace, currentDisplayPace, rawPace,
                 stepRateHistory, inMainMenu, currentMenuSelection, isGraphDisplayed,
                 justEnteredMenu, redrawClock, use12HourFormat, timeFormatOption,
                 inTimeFormatMenu, inTimeSetMenu, timeToSet, timeFieldSelected,
                 dateToSet, dateFieldSelected, button1HoldCount, graphButton1HoldCount,
                 comboPressCount, button1WasPressed, wasInMenu, button1Pressed,
                 button2Pressed, tiltCount, currentTimeStr, isPM, ret, samples, clock0,
                 nAdv, pace0, nIter, ticksLeft, pressesLeft, itersLeft, stepsLeft,
                 quietTicks, pollLog, selBefore, holdTicks, holdEntered, levelRun,
                 graphRun, waitTicks, freshEntry, released1, released2, inCombo1,
                 inCombo2, staged, stepSum, seen, isrCalls, bus, display>>

\* lines 899-903: the end of a menu poll calls updateMenuTimeDisplay, which
\* reads the hours first (lines 694-700)
FgMenuEnd ==
  /\ pc = "menuEnd"
  /\ currentTimeStr' = <<DisplayHours(systemClock.hours, use12HourFormat)>>
  /\ pc' = "mtMinutes" /\ ret' = <<"menuDone">>
  /\ UNCHANGED <<b1, b2, systemClock, elapsedSeconds, showFootIcon, totalSteps,
                 wasStepThresholdExceeded, stepsPerSecond, currentSecondIndex,
                 previousStepCount, inactivityCount, stepCount, wasAboveThreshold,
                 currentStepPace, displayedStepPace, currentDisplayPace, rawPace,
                 stepRateHistory, inMainMenu, currentMenuSelection, isGraphDisplayed,
                 justEnteredMenu, redrawClock, use12HourFormat, timeFormatOption,
                 inTimeFormatMenu, inTimeSetMenu, timeToSet, timeFieldSelected,
                 dateToSet, dateFieldSelected, button1HoldCount, graphButton1HoldCount,
                 comboPressCount, button1WasPressed, button2WasPressed, wasInMenu,
                 button1Pressed, button2Pressed, tiltCount, isPM, samples, clock0,
                 nAdv, pace0, nIter, ticksLeft, pressesLeft, itersLeft, stepsLeft,
                 quietTicks, pollLog, selBefore, holdTicks, holdEntered, levelRun,
                 graphRun, waitTicks, freshEntry, released1, released2, inCombo1,
                 inCombo2, staged, stepSum, seen, isrCalls, bus, display>>

\* line 905
FgMenuDone ==
  /\ pc = "menuDone"
  /\ wasInMenu' = TRUE
  /\ pc' = "loop"
  /\ UNCHANGED <<b1, b2, systemClock, elapsedSeconds, showFootIcon, totalSteps,
                 wasStepThresholdExceeded, stepsPerSecond, currentSecondIndex,
                 previousStepCount, inactivityCount, stepCount, wasAboveThreshold,
                 currentStepPace, displayedStepPace, currentDisplayPace, rawPace,
                 stepRateHistory, inMainMenu, currentMenuSelection, isGraphDisplayed,
                 justEnteredMenu, redrawClock, use12HourFormat, timeFormatOption,
                 inTimeFormatMenu, inTimeSetMenu, timeToSet, timeFieldSelected,
                 dateToSet, dateFieldSelected, button1HoldCount, graphButton1HoldCount,
                 comboPressCount, button1WasPressed, button2WasPressed, button1Pressed,
                 button2Pressed, tiltCount, currentTimeStr, isPM, ret, samples, clock0,
                 nAdv, pace0, nIter, ticksLeft, pressesLeft, itersLeft, stepsLeft,
                 quietTicks, pollLog, selBefore, holdTicks, holdEntered, levelRun,
                 graphRun, waitTicks, freshEntry, released1, released2, inCombo1,
                 inCombo2, staged, stepSum, seen, isrCalls, bus, display>>

\* ---- updateMenuTimeDisplay called by the foreground code, lines 691-715: the
\* clock is read field by field and the tick handler may run in between
MtPcs == {"mtHours", "mtMinutes", "mtSeconds", "mtCompare", "mtCopy"}

\* lines 694-700
FgMtHours ==
  /\ pc = "mtHours"
  /\ currentTimeStr' = <<DisplayHours(systemClock.hours, use12HourFormat)>>
  /\ pc' = "mtMinutes"
  /\ UNCHANGED <<b1, b2, systemClock, elapsedSeconds, showFootIcon, totalSteps,
                 wasStepThresholdExceeded, stepsPerSecond, currentSecondIndex,
                 previousStepCount, inactivityCount, stepCount, wasAboveThreshold,
                 currentStepPace, displayedStepPace, currentDisplayPace, rawPace,
                 stepRateHistory, inMainMenu, currentMenuSelection, isGraphDisplayed,
                 justEnteredMenu, redrawClock, use12HourFormat, timeFormatOption,
                 inTimeFormatMenu, inTimeSetMenu, timeToSet, timeFieldSelected,
                 dateToSet, dateFieldSelected, button1HoldCount, graphButton1HoldCount,
                 comboPressCount, button1WasPressed, button2WasPressed, wasInMenu,
                 button1Pressed, button2Pressed, tiltCount, isPM, ret, samples, clock0,
                 nAdv, pace0, nIter, ticksLeft, pressesLeft, itersLeft, stepsLeft,
                 quietTicks, pollLog, selBefore, holdTicks, holdEntered, levelRun,
                 graphRun, waitTicks, freshEntry, released1, released2, inCombo1,
                 inCombo2, staged, stepSum, seen, isrCalls, bus, display>>

\* line 704
FgMtMinutes ==
  /\ pc = "mtMinutes"
  /\ currentTimeStr' = Append(currentTimeStr, systemClock.minutes)
  /\ pc' = "mtSeconds"
  /\ UNCHANGED <<b1, b2, systemClock, elapsedSeconds, showFootIcon, totalSteps,
                 wasStepThresholdExceeded, stepsPerSecond, currentSecondIndex,
                 previousStepCount, inactivityCount, stepCount, wasAboveThreshold,
                 currentStepPace, displayedStepPace, currentDisplayPace, rawPace,
                 stepRateHistory, inMainMenu, currentMenuSelection, isGraphDisplayed,
                 justEnteredMenu, redrawClock, use12HourFormat, timeFormatOption,
                 inTimeFormatMenu, inTimeSetMenu, timeToSet, timeFieldSelected,
                 dateToSet, dateFieldSelected, button1HoldCount, graphButton1HoldCount,
                 comboPressCount, button1WasPressed, button2WasPressed, wasInMenu,
                 button1Pressed, button2Pressed, tiltCount, isPM, ret, samples, clock0,
                 nAdv, pace0, nIter, ticksLeft, pressesLeft, itersLeft, stepsLeft,
                 quietTicks, pollLog, selBefore, holdTicks, holdEntered, levelRun,
                 graphRun, waitTicks, freshEntry, released1, released2, inCombo1,
                 inCombo2, staged, stepSum, seen, isrCalls, bus, display>>

\* line 707
FgMtSeconds ==
  /\ pc = "mtSeconds"
  /\ currentTimeStr' = Append(currentTimeStr, systemClock.seconds)
  /\ pc' = "mtCompare"
  /\ UNCHANGED <<b1, b2, systemClock, elapsedSeconds, showFootIcon, totalSteps,
                 wasStepThresholdExceeded, stepsPerSecond, currentSecondIndex,
                 previousStepCount, inactivityCount, stepCount, wasAboveThreshold,
                 currentStepPace, displayedStepPace, currentDisplayPace, rawPace,
                 stepRateHistory, inMainMenu, currentMenuSelection, isGraphDisplayed,
                 justEnteredMenu, redrawClock, use12HourFormat, timeFormatOption,
                 inTimeFormatMenu, inTimeSetMenu, timeToSet, timeFieldSelected,
                 dateToSet, dateFieldSelected, button1HoldCount, graphButton1HoldCount,
                 comboPressCount, button1WasPressed, button2WasPressed, wasInMenu,
                 button1Pressed, button2Pressed, tiltCount, isPM, ret, samples, clock0,
                 nAdv, pace0, nIter, ticksLeft, pressesLeft, itersLeft, stepsLeft,
                 quietTicks, pollLog, selBefore, holdTicks, holdEntered, levelRun,
                 graphRun, waitTicks, freshEntry, released1, released2, inCombo1,
                 inCombo2, staged, stepSum, seen, isrCalls, bus, display>>

\* line 710: strcmp with the text drawn last; an equal text ends the call
FgMtCompare ==
  /\ pc = "mtCompare"
  /\ IF TextChanged(display.previousTime, currentTimeStr)
     THEN /\ pc' = "mtCopy"
          /\ UNCHANGED <<display, ret, currentTimeStr>>
     ELSE /\ display' = [display EXCEPT !.calls = <<>>]
          /\ pc' = Head(ret) /\ ret' = Tail(ret)
          /\ currentTimeStr' = <<>>
  /\ UNCHANGED <<b1, b2, systemClock, elapsedSeconds, showFootIcon, totalSteps,
                 wasStepThresholdExceeded, stepsPerSecond, currentSecondIndex,
                 previousStepCount, inactivityCount, stepCount, wasAboveThreshold,
                 currentStepPace, displayedStepPace, currentDisplayPace, rawPace,
                 stepRateHistory, inMainMenu, currentMenuSelection, isGraphDisplayed,
                 justEnteredMenu, redrawClock, use12HourFormat, timeFormatOption,
                 inTimeFormatMenu, inTimeSetMenu, timeToSet, timeFieldSelected,
                 dateToSet, dateFieldSelected, button1HoldCount, graphButton1HoldCount,
                 comboPressCount, button1WasPressed, button2WasPressed, wasInMenu,
                 button1Pressed, button2Pressed, tiltCount, isPM, samples, clock0,
                 nAdv, pace0, nIter, ticksLeft, pressesLeft, itersLeft, stepsLeft,
                 quietTicks, pollLog, selBefore, holdTicks, holdEntered, levelRun,
                 graphRun, waitTicks, freshEntry, released1, released2, inCombo1,
                 inCombo2, staged, stepSum, seen, isrCalls, bus>>

\* lines 711-713: erase, draw, strcpy
FgMtCopy ==
  /\ pc = "mtCopy"
  /\ display' = [display EXCEPT !.previousTime = currentTimeStr,
                                !.calls = <<<<"menuTime", "erase">>, <<"menuTime", "draw">>>>]
  /\ pc' = Head(ret) /\ ret' = Tail(ret)
  /\ currentTimeStr' = <<>>
  /\ UNCHANGED <<b1, b2, systemClock, elapsedSeconds, showFootIcon, totalSteps,
                 wasStepThresholdExceeded, stepsPerSecond, currentSecondIndex,
                 previousStepCount, inactivityCount, stepCount, wasAboveThreshold,
                 currentStepPace, displayedStepPace, currentDisplayPace, rawPace,
                 stepRateHistory, inMainMenu, currentMenuSelection, isGraphDisplayed,
                 justEnteredMenu, redrawClock, use12HourFormat, timeFormatOption,
                 inTimeFormatMenu, inTimeSetMenu, timeToSet, timeFieldSelected,
                 dateToSet, dateFieldSelected, button1HoldCount, graphButton1HoldCount,
                 comboPressCount, button1WasPressed, button2WasPressed, wasInMenu,
                 button1Pressed, button2Pressed, tiltCount, isPM, samples, clock0,
                 nAdv, pace0, nIter, ticksLeft, pressesLeft, itersLeft, stepsLeft,
                 quietTicks, pollLog, selBefore, holdTicks, holdEntered, levelRun,
                 graphRun, waitTicks, freshEntry, released1, released2, inCombo1,
                 inCombo2, staged, stepSum, seen, isrCalls, bus>>

\* executeMenuSelection, lines 718-727: where selection sel leads
DispatchTargetShifted(sel) ==
  CASE sel = 0 -> "fmtEnter"
    [] sel = 1 -> "graphEnter"
    [] sel = 2 -> "tsStageH"
    [] sel = 3 -> "dsStageD"
    [] OTHER -> "afterExec"
DispatchTarget(sel) ==
  CASE sel = 0 -> "graphEnter"
    [] sel = 1 -> "fmtEnter"
    [] sel = 2 -> "tsStageH"
    [] sel = 3 -> "dsStageD"
    [] OTHER -> "afterExec"

\* line 724: the Exit item requests a full redraw; and the same forgetting it
RedrawAfterDispatchKept(sel, redraw) == redraw
RedrawAfterDispatch(sel, redraw) == IF sel = 4 THEN TRUE ELSE redraw

\* lines 859-862: the wait for the combo's release, then the dispatch
FgWaitCombo ==
  /\ pc = "waitCombo" /\ ~(b1 /\ b2)
  /\ pc' = DispatchTarget(currentMenuSelection)
  /\ inMainMenu' = IF currentMenuSelection = 4 THEN FALSE ELSE inMainMenu
  /\ redrawClock' = RedrawAfterDispatch(currentMenuSelection, redrawClock)
  /\ pollLog' = <<>>
  /\ UNCHANGED <<b1, b2, systemClock, elapsedSeconds, showFootIcon, totalSteps,
                 wasStepThresholdExceeded, stepsPerSecond, currentSecondIndex,
                 previousStepCount, inactivityCount, stepCount, wasAboveThreshold,
                 currentStepPace, displayedStepPace, currentDisplayPace, rawPace,
                 stepRateHistory, currentMenuSelection, isGraphDisplayed,
                 justEnteredMenu, use12HourFormat, timeFormatOption, inTimeFormatMenu,
                 inTimeSetMenu, timeToSet, timeFieldSelected, dateToSet,
                 dateFieldSelected, button1HoldCount, graphButton1HoldCount,
                 comboPressCount, button1WasPressed, button2WasPressed, wasInMenu,
                 button1Pressed, button2Pressed, tiltCount, currentTimeStr, isPM, ret,
                 samples, clock0, nAdv, pace0, nIter, ticksLeft, pressesLeft,
                 itersLeft, stepsLeft, quietTicks, selBefore, holdTicks, holdEntered,
                 levelRun, graphRun, waitTicks, freshEntry, released1, released2,
                 inCombo1, inCombo2, staged, stepSum, seen, isrCalls, bus, display>>

\* lines 863-866, after executeMenuSelection has returned
FgAfterExec ==
  /\ pc = "afterExec"
  /\ comboPressCount' = 0
  /\ button1WasPressed' = TRUE /\ button2WasPressed' = TRUE
  \* line 903
  /\ pc' = "mtHours" /\ ret' = <<"menuDone">>
  /\ UNCHANGED <<b1, b2, systemClock, elapsedSeconds, showFootIcon, totalSteps,
                 wasStepThresholdExceeded, stepsPerSecond, currentSecondIndex,
                 previousStepCount, inactivityCount, stepCount, wasAboveThreshold,
                 currentStepPace, displayedStepPace, currentDisplayPace, rawPace,
                 stepRateHistory, inMainMenu, currentMenuSelection, isGraphDisplayed,
                 justEnteredMenu, redrawClock, use12HourFormat, timeFormatOption,
                 inTimeFormatMenu, inTimeSetMenu, timeToSet, timeFieldSelected,
                 dateToSet, dateFieldSelected, button1HoldCount, graphButton1HoldCount,
                 wasInMenu, button1Pressed, button2Pressed, tiltCount, currentTimeStr,
                 isPM, samples, clock0, nAdv, pace0, nIter, ticksLeft, pressesLeft,
                 itersLeft, stepsLeft, quietTicks, pollLog, selBefore, holdTicks,
                 holdEntered, levelRun, graphRun, waitTicks, freshEntry, released1,
                 released2, inCombo1, inCombo2, staged, stepSum, seen, isrCalls, bus,
                 display>>

\* ---- Clock mode, lines 915-937
\* readings offered to detectStep in the running system: at rest, a force of
\* exactly 900, a force of 900.00415
StepInputs ==
  { [x |-> 0, y |-> 0, z |-> 256], [x |-> 481, y |-> 0, z |-> 0],
    [x |-> 481, y |-> 1, z |-> 0] }

\* detectStep in the running system, lines 186-200 and 205: the reading and the
\* edge test; a step increments totalSteps, and the tick handler may run before
\* the bucket is incremented
FgDetect ==
  /\ pc = "detect" /\ itersLeft > 0
  /\ \E a \in StepInputs :
       LET exceedsThreshold == ExceedsThreshold(a)
       IN IF exceedsThreshold /\ ~wasStepThresholdExceeded
          THEN /\ stepsLeft > 0
               /\ totalSteps' = U16(totalSteps + 1)
               /\ stepsLeft' = stepsLeft - 1
               /\ quietTicks' = 0
               /\ pc' = "detectBucket"
               /\ UNCHANGED wasStepThresholdExceeded
          ELSE /\ wasStepThresholdExceeded' = exceedsThreshold
               /\ pc' = "smooth"
               /\ UNCHANGED <<totalSteps, stepsLeft, quietTicks>>
  /\ itersLeft' = itersLeft - 1
  /\ UNCHANGED <<b1, b2, systemClock, elapsedSeconds, showFootIcon, stepsPerSecond,
                 currentSecondIndex, previousStepCount, inactivityCount, stepCount,
                 wasAboveThreshold, currentStepPace, displayedStepPace,
                 currentDisplayPace, rawPace, stepRateHistory, inMainMenu,
                 currentMenuSelection, isGraphDisplayed, justEnteredMenu, redrawClock,
                 use12HourFormat, timeFormatOption, inTimeFormatMenu, inTimeSetMenu,
                 timeToSet, timeFieldSelected, dateToSet, dateFieldSelected,
                 button1HoldCount, graphButton1HoldCount, comboPressCount,
                 button1WasPressed, button2WasPressed, wasInMenu, button1Pressed,
                 button2Pressed, tiltCount, currentTimeStr, isPM, ret, samples, clock0,
                 nAdv, pace0, nIter, ticksLeft, pressesLeft, pollLog, selBefore,
                 holdTicks, holdEntered, levelRun, graphRun, waitTicks, freshEntry,
                 released1, released2, inCombo1, inCombo2, staged, stepSum, seen,
                 isrCalls, bus, display>>

\* lines 201-205: the bucket of the second that is current now, then the edge flag
FgDetectBucket ==
  /\ pc = "detectBucket"
  /\ stepsPerSecond' = [stepsPerSecond EXCEPT ![currentSecondIndex] = U8(@ + 1)]
  /\ wasStepThresholdExceeded' = TRUE
  /\ pc' = "smooth"
  /\ UNCHANGED <<b1, b2, systemClock, elapsedSeconds, showFootIcon, totalSteps,
                 currentSecondIndex, previousStepCount, inactivityCount, stepCount,
                 wasAboveThreshold, currentStepPace, displayedStepPace,
                 currentDisplayPace, rawPace, stepRateHistory, inMainMenu,
                 currentMenuSelection, isGraphDisplayed, justEnteredMenu, redrawClock,
                 use12HourFormat, timeFormatOption, inTimeFormatMenu, inTimeSetMenu,
                 timeToSet, timeFieldSelected, dateToSet, dateFieldSelected,
                 button1HoldCount, graphButton1HoldCount, comboPressCount,
                 button1WasPressed, button2WasPressed, wasInMenu, button1Pressed,
                 button2Pressed, tiltCount, currentTimeStr, isPM, ret, samples, clock0,
                 nAdv, pace0, nIter, ticksLeft, pressesLeft, itersLeft, stepsLeft,
                 quietTicks, pollLog, selBefore, holdTicks, holdEntered, levelRun,
                 graphRun, waitTicks, freshEntry, released1, released2, inCombo1,
                 inCombo2, staged, stepSum, seen, isrCalls, bus, display>>

FgSmooth ==
  /\ pc = "smooth"
  /\ smoothDisplayedPace
  /\ pc' = "history"
  /\ UNCHANGED <<b1, b2, systemClock, elapsedSeconds, showFootIcon, totalSteps,
                 wasStepThresholdExceeded, stepsPerSecond, currentSecondIndex,
                 previousStepCount, inactivityCount, stepCount, wasAboveThreshold,
                 currentStepPace, stepRateHistory, inMainMenu, currentMenuSelection,
                 isGraphDisplayed, justEnteredMenu, redrawClock, use12HourFormat,
                 timeFormatOption, inTimeFormatMenu, inTimeSetMenu, timeToSet,
                 timeFieldSelected, dateToSet, dateFieldSelected, button1HoldCount,
                 graphButton1HoldCount, comboPressCount, button1WasPressed,
                 button2WasPressed, wasInMenu, button1Pressed, button2Pressed,
                 tiltCount, currentTimeStr, isPM, ret, samples, clock0, nAdv, pace0,
                 nIter, ticksLeft, pressesLeft, itersLeft, stepsLeft, quietTicks,
                 pollLog, selBefore, holdTicks, holdEntered, levelRun, graphRun,
                 waitTicks, freshEntry, released1, released2, inCombo1, inCombo2,
                 staged, stepSum, seen, isrCalls, bus, display>>

\* line 931
FgHistory ==
  /\ pc = "history"
  /\ stepRateHistory' =
       [stepRateHistory EXCEPT ![elapsedSeconds % GRAPH_WIDTH] = U8(displayedStepPace)]
  /\ pc' = "render"
  /\ UNCHANGED <<b1, b2, systemClock, elapsedSeconds, showFootIcon, totalSteps,
                 wasStepThresholdExceeded, stepsPerSecond, currentSecondIndex,
                 previousStepCount, inactivityCount, stepCount, wasAboveThreshold,
                 currentStepPace, displayedStepPace, currentDisplayPace, rawPace,
                 inMainMenu, currentMenuSelection, isGraphDisplayed, justEnteredMenu,
                 redrawClock, use12HourFormat, timeFormatOption, inTimeFormatMenu,
                 inTimeSetMenu, timeToSet, timeFieldSelected, dateToSet,
                 dateFieldSelected, button1HoldCount, graphButton1HoldCount,
                 comboPressCount, button1WasPressed, button2WasPressed, wasInMenu,
                 button1Pressed, button2Pressed, tiltCount, currentTimeStr, isPM, ret,
                 samples, clock0, nAdv, pace0, nIter, ticksLeft, pressesLeft,
                 itersLeft, stepsLeft, quietTicks, pollLog, selBefore, holdTicks,
                 holdEntered, levelRun, graphRun, waitTicks, freshEntry, released1,
                 released2, inCombo1, inCombo2, staged, stepSum, seen, isrCalls, bus,
                 display>>

\* ---- displayStepPace and renderClockDisplay called by the main loop, lines
\* 933-934: the clock is read field by field, a field once to compare it and once
\* more to cache it, and the tick handler may run in between; display.calls
\* collects the calls of both renderers

\* lines 317-323: the AM/PM mark
AmPmBlock(d, pm, is12Hour) ==
  IF is12Hour /\ (pm # d.lastIsPM \/ d.lastWas12Hour # is12Hour \/ d.lastHours = 255)
  THEN [d EXCEPT !.lastIsPM = pm,
                 !.calls = @ \o <<<<"ampm", "erase">>, <<"ampm", "draw">>>>]
  ELSE IF ~is12Hour /\ d.lastWas12Hour
       THEN [d EXCEPT !.calls = @ \o <<<<"ampm", "erase">>>>]
       ELSE d

\* line 933: displayStepPace
FgRender ==
  /\ pc = "render"
  /\ display' = RenderPace(display, displayedStepPace)
  /\ seen' = [seen EXCEPT !.pace = <<TRUE, displayedStepPace>>]
  /\ pc' = "rcHours"
  /\ UNCHANGED <<b1, b2, systemClock, elapsedSeconds, showFootIcon, totalSteps,
                 wasStepThresholdExceeded, stepsPerSecond, currentSecondIndex,
                 previousStepCount, inactivityCount, stepCount, wasAboveThreshold,
                 currentStepPace, displayedStepPace, currentDisplayPace, rawPace,
                 stepRateHistory, inMainMenu, currentMenuSelection, isGraphDisplayed,
                 justEnteredMenu, redrawClock, use12HourFormat, timeFormatOption,
                 inTimeFormatMenu, inTimeSetMenu, timeToSet, timeFieldSelected,
                 dateToSet, dateFieldSelected, button1HoldCount, graphButton1HoldCount,
                 comboPressCount, button1WasPressed, button2WasPressed, wasInMenu,
                 button1Pressed, button2Pressed, tiltCount, currentTimeStr, isPM, ret,
                 samples, clock0, nAdv, pace0, nIter, ticksLeft, pressesLeft,
                 itersLeft, stepsLeft, quietTicks, pollLog, selBefore, holdTicks,
                 holdEntered, levelRun, graphRun, waitTicks, freshEntry, released1,
                 released2, inCombo1, inCombo2, staged, stepSum, isrCalls, bus>>

\* lines 272-300: the hours are read, the full-redraw request is consumed, the
\* hours are drawn
FgRcHours ==
  /\ pc = "rcHours"
  /\ LET d1 == AfterRedraw(display, use12HourFormat, redrawClock)
         shown == DisplayHours(systemClock.hours, use12HourFormat)
     IN display' =
          IF shown # d1.lastHours \/ d1.lastWas12Hour # use12HourFormat
          THEN [d1 EXCEPT !.lastHours = shown,
                          !.calls = @ \o <<<<"hours", "erase">>, <<"hours", "draw">>,
                                           <<"hours", "draw">>>>]
          ELSE d1
  /\ seen' = SeenStart(seen, systemClock, use12HourFormat, redrawClock,
                       CallsAdded(display, display'))
  /\ isPM' = IsPM(systemClock.hours, use12HourFormat)
  /\ redrawClock' = FALSE
  /\ pc' = "rcMinutes"
  /\ UNCHANGED <<b1, b2, systemClock, elapsedSeconds, showFootIcon, totalSteps,
                 wasStepThresholdExceeded, stepsPerSecond, currentSecondIndex,
                 previousStepCount, inactivityCount, stepCount, wasAboveThreshold,
                 currentStepPace, displayedStepPace, currentDisplayPace, rawPace,
                 stepRateHistory, inMainMenu, currentMenuSelection, isGraphDisplayed,
                 justEnteredMenu, use12HourFormat, timeFormatOption, inTimeFormatMenu,
                 inTimeSetMenu, timeToSet, timeFieldSelected, dateToSet,
                 dateFieldSelected, button1HoldCount, graphButton1HoldCount,
                 comboPressCount, button1WasPressed, button2WasPressed, wasInMenu,
                 button1Pressed, button2Pressed, tiltCount, currentTimeStr, ret,
                 samples, clock0, nAdv, pace0, nIter, ticksLeft, pressesLeft,
                 itersLeft, stepsLeft, quietTicks, pollLog, selBefore, holdTicks,
                 holdEntered, levelRun, graphRun, waitTicks, freshEntry, released1,
                 released2, inCombo1, inCombo2, staged, stepSum, isrCalls, bus>>

\* line 302
FgRcMinutes ==
  /\ pc = "rcMinutes"
  /\ pc' = IF systemClock.minutes # display.lastMinutes
              \/ display.lastWas12Hour # use12HourFormat
           THEN "rcMinutesSet" ELSE "rcSeconds"
  /\ UNCHANGED <<b1, b2, systemClock, elapsedSeconds, showFootIcon, totalSteps,
                 wasStepThresholdExceeded, stepsPerSecond, currentSecondIndex,
                 previousStepCount, inactivityCount, stepCount, wasAboveThreshold,
                 currentStepPace, displayedStepPace, currentDisplayPace, rawPace,
                 stepRateHistory, inMainMenu, currentMenuSelection, isGraphDisplayed,
                 justEnteredMenu, redrawClock, use12HourFormat, timeFormatOption,
                 inTimeFormatMenu, inTimeSetMenu, timeToSet, timeFieldSelected,
                 dateToSet, dateFieldSelected, button1HoldCount, graphButton1HoldCount,
                 comboPressCount, button1WasPressed, button2WasPressed, wasInMenu,
                 button1Pressed, button2Pressed, tiltCount, currentTimeStr, isPM, ret,
                 samples, clock0, nAdv, pace0, nIter, ticksLeft, pressesLeft,
                 itersLeft, stepsLeft, quietTicks, pollLog, selBefore, holdTicks,
                 holdEntered, levelRun, graphRun, waitTicks, freshEntry, released1,
                 released2, inCombo1, inCombo2, staged, stepSum, seen, isrCalls, bus,
                 display>>

\* lines 303-307: lastMinutes = time->minutes
FgRcMinutesSet ==
  /\ pc = "rcMinutesSet"
  /\ display' = [display EXCEPT !.lastMinutes = systemClock.minutes,
                                !.calls = @ \o <<<<"minutes", "erase">>, <<"minutes", "draw">>,
                                                 <<"minutes", "draw">>>>]
  /\ seen' = SeenMore(seen, CallsAdded(display, display'))
  /\ pc' = "rcSeconds"
  /\ UNCHANGED <<b1, b2, systemClock, elapsedSeconds, showFootIcon, totalSteps,
                 wasStepThresholdExceeded, stepsPerSecond, currentSecondIndex,
                 previousStepCount, inactivityCount, stepCount, wasAboveThreshold,
                 currentStepPace, displayedStepPace, currentDisplayPace, rawPace,
                 stepRateHistory, inMainMenu, currentMenuSelection, isGraphDisplayed,
                 justEnteredMenu, redrawClock, use12HourFormat, timeFormatOption,
                 inTimeFormatMenu, inTimeSetMenu, timeToSet, timeFieldSelected,
                 dateToSet, dateFieldSelected, button1HoldCount, graphButton1HoldCount,
                 comboPressCount, button1WasPressed, button2WasPressed, wasInMenu,
                 button1Pressed, button2Pressed, tiltCount, currentTimeStr, isPM, ret,
                 samples, clock0, nAdv, pace0, nIter, ticksLeft, pressesLeft,
                 itersLeft, stepsLeft, quietTicks, pollLog, selBefore, holdTicks,
                 holdEntered, levelRun, graphRun, waitTicks, freshEntry, released1,
                 released2, inCombo1, inCombo2, staged, stepSum, isrCalls, bus>>

\* line 310, and lines 317-323 when the seconds are as drawn
FgRcSeconds ==
  /\ pc = "rcSeconds"
  /\ IF systemClock.seconds # display.lastSeconds
     THEN pc' = "rcSecondsSet" /\ UNCHANGED <<display, seen>>
     ELSE /\ display' = AmPmBlock(display, isPM, use12HourFormat)
          /\ seen' = SeenMore(seen, CallsAdded(display, display'))
          /\ pc' = "rcDay"
  /\ UNCHANGED <<b1, b2, systemClock, elapsedSeconds, showFootIcon, totalSteps,
                 wasStepThresholdExceeded, stepsPerSecond, currentSecondIndex,
                 previousStepCount, inactivityCount, stepCount, wasAboveThreshold,
                 currentStepPace, displayedStepPace, currentDisplayPace, rawPace,
                 stepRateHistory, inMainMenu, currentMenuSelection, isGraphDisplayed,
                 justEnteredMenu, redrawClock, use12HourFormat, timeFormatOption,
                 inTimeFormatMenu, inTimeSetMenu, timeToSet, timeFieldSelected,
                 dateToSet, dateFieldSelected, button1HoldCount, graphButton1HoldCount,
                 comboPressCount, button1WasPressed, button2WasPressed, wasInMenu,
                 button1Pressed, button2Pressed, tiltCount, currentTimeStr, isPM, ret,
                 samples, clock0, nAdv, pace0, nIter, ticksLeft, pressesLeft,
                 itersLeft, stepsLeft, quietTicks, pollLog, selBefore, holdTicks,
                 holdEntered, levelRun, graphRun, waitTicks, freshEntry, released1,
                 released2, inCombo1, inCombo2, staged, stepSum, isrCalls, bus>>

\* lines 311-323: lastSeconds = time->seconds, then the AM/PM mark
FgRcSecondsSet ==
  /\ pc = "rcSecondsSet"
  /\ display' = AmPmBlock([display EXCEPT !.lastSeconds = systemClock.seconds,
                                          !.calls = @ \o <<<<"seconds", "erase">>,
                                                           <<"seconds", "draw">>>>],
                          isPM, use12HourFormat)
  /\ seen' = SeenMore(seen, CallsAdded(display, display'))
  /\ pc' = "rcDay"
  /\ UNCHANGED <<b1, b2, systemClock, elapsedSeconds, showFootIcon, totalSteps,
                 wasStepThresholdExceeded, stepsPerSecond, currentSecondIndex,
                 previousStepCount, inactivityCount, stepCount, wasAboveThreshold,
                 currentStepPace, displayedStepPace, currentDisplayPace, rawPace,
                 stepRateHistory, inMainMenu, currentMenuSelection, isGraphDisplayed,
                 justEnteredMenu, redrawClock, use12HourFormat, timeFormatOption,
                 inTimeFormatMenu, inTimeSetMenu, timeToSet, timeFieldSelected,
                 dateToSet, dateFieldSelected, button1HoldCount, graphButton1HoldCount,
                 comboPressCount, button1WasPressed, button2WasPressed, wasInMenu,
                 button1Pressed, button2Pressed, tiltCount, currentTimeStr, isPM, ret,
                 samples, clock0, nAdv, pace0, nIter, ticksLeft, pressesLeft,
                 itersLeft, stepsLeft, quietTicks, pollLog, selBefore, holdTicks,
                 holdEntered, levelRun, graphRun, waitTicks, freshEntry, released1,
                 released2, inCombo1, inCombo2, staged, stepSum, isrCalls, bus>>

\* line 325, the day
FgRcDay ==
  /\ pc = "rcDay"
  /\ pc' = IF systemClock.day # display.lastDay THEN "rcDaySet" ELSE "rcMonth"
  /\ UNCHANGED <<b1, b2, systemClock, elapsedSeconds, showFootIcon, totalSteps,
                 wasStepThresholdExceeded, stepsPerSecond, currentSecondIndex,
                 previousStepCount, inactivityCount, stepCount, wasAboveThreshold,
                 currentStepPace, displayedStepPace, currentDisplayPace, rawPace,
                 stepRateHistory, inMainMenu, currentMenuSelection, isGraphDisplayed,
                 justEnteredMenu, redrawClock, use12HourFormat, timeFormatOption,
                 inTimeFormatMenu, inTimeSetMenu, timeToSet, timeFieldSelected,
                 dateToSet, dateFieldSelected, button1HoldCount, graphButton1HoldCount,
                 comboPressCount, button1WasPressed, button2WasPressed, wasInMenu,
                 button1Pressed, button2Pressed, tiltCount, currentTimeStr, isPM, ret,
                 samples, clock0, nAdv, pace0, nIter, ticksLeft, pressesLeft,
                 itersLeft, stepsLeft, quietTicks, pollLog, selBefore, holdTicks,
                 holdEntered, levelRun, graphRun, waitTicks, freshEntry, released1,
                 released2, inCombo1, inCombo2, staged, stepSum, seen, isrCalls, bus,
                 display>>

\* line 325, the month; lines 335-337 when the date is as drawn
FgRcMonth ==
  /\ pc = "rcMonth"
  /\ IF systemClock.month # display.lastMonth \/ display.lastHours = 255
     THEN pc' = "rcDaySet" /\ UNCHANGED <<display, isPM, seen>>
     ELSE /\ display' = [display EXCEPT !.lastWas12Hour = use12HourFormat]
          /\ seen' = SeenEnd(seen)
          /\ isPM' = FALSE
          /\ pc' = "loop"
  /\ UNCHANGED <<b1, b2, systemClock, elapsedSeconds, showFootIcon, totalSteps,
                 wasStepThresholdExceeded, stepsPerSecond, currentSecondIndex,
                 previousStepCount, inactivityCount, stepCount, wasAboveThreshold,
                 currentStepPace, displayedStepPace, currentDisplayPace, rawPace,
                 stepRateHistory, inMainMenu, currentMenuSelection, isGraphDisplayed,
                 justEnteredMenu, redrawClock, use12HourFormat, timeFormatOption,
                 inTimeFormatMenu, inTimeSetMenu, timeToSet, timeFieldSelected,
                 dateToSet, dateFieldSelected, button1HoldCount, graphButton1HoldCount,
                 comboPressCount, button1WasPressed, button2WasPressed, wasInMenu,
                 button1Pressed, button2Pressed, tiltCount, currentTimeStr, ret,
                 samples, clock0, nAdv, pace0, nIter, ticksLeft, pressesLeft,
                 itersLeft, stepsLeft, quietTicks, pollLog, selBefore, holdTicks,
                 holdEntered, levelRun, graphRun, waitTicks, freshEntry, released1,
                 released2, inCombo1, inCombo2, staged, stepSum, isrCalls, bus>>

\* lines 325-331: the date is drawn, lastDay = time->day
FgRcDaySet ==
  /\ pc = "rcDaySet"
  /\ display' = [display EXCEPT !.lastDay = systemClock.day,
                                !.calls = @ \o <<<<"date", "erase">>, <<"date", "draw">>,
                                                 <<"date", "draw">>, <<"date", "draw">>>>]
  /\ seen' = SeenMore(seen, CallsAdded(display, display'))
  /\ pc' = "rcMonthSet"
  /\ UNCHANGED <<b1, b2, systemClock, elapsedSeconds, showFootIcon, totalSteps,
                 wasStepThresholdExceeded, stepsPerSecond, currentSecondIndex,
                 previousStepCount, inactivityCount, stepCount, wasAboveThreshold,
                 currentStepPace, displayedStepPace, currentDisplayPace, rawPace,
                 stepRateHistory, inMainMenu, currentMenuSelection, isGraphDisplayed,
                 justEnteredMenu, redrawClock, use12HourFormat, timeFormatOption,
                 inTimeFormatMenu, inTimeSetMenu, timeToSet, timeFieldSelected,
                 dateToSet, dateFieldSelected, button1HoldCount, graphButton1HoldCount,
                 comboPressCount, button1WasPressed, button2WasPressed, wasInMenu,
                 button1Pressed, button2Pressed, tiltCount, currentTimeStr, isPM, ret,
                 samples, clock0, nAdv, pace0, nIter, ticksLeft, pressesLeft,
                 itersLeft, stepsLeft, quietTicks, pollLog, selBefore, holdTicks,
                 holdEntered, levelRun, graphRun, waitTicks, freshEntry, released1,
                 released2, inCombo1, inCombo2, staged, stepSum, isrCalls, bus>>

\* lines 332-337: lastMonth = time->month
FgRcMonthSet ==
  /\ pc = "rcMonthSet"
  /\ display' = [display EXCEPT !.lastMonth = systemClock.month,
                                !.lastWas12Hour = use12HourFormat]
  /\ seen' = SeenEnd(seen)
  /\ isPM' = FALSE
  /\ pc' = "loop"
  /\ UNCHANGED <<b1, b2, systemClock, elapsedSeconds, showFootIcon, totalSteps,
                 wasStepThresholdExceeded, stepsPerSecond, currentSecondIndex,
                 previousStepCount, inactivityCount, stepCount, wasAboveThreshold,
                 currentStepPace, displayedStepPace, currentDisplayPace, rawPace,
                 stepRateHistory, inMainMenu, currentMenuSelection, isGraphDisplayed,
                 justEnteredMenu, redrawClock, use12HourFormat, timeFormatOption,
                 inTimeFormatMenu, inTimeSetMenu, timeToSet, timeFieldSelected,
                 dateToSet, dateFieldSelected, button1HoldCount, graphButton1HoldCount,
                 comboPressCount, button1WasPressed, button2WasPressed, wasInMenu,
                 button1Pressed, button2Pressed, tiltCount, currentTimeStr, ret,
                 samples, clock0, nAdv, pace0, nIter, ticksLeft, pressesLeft,
                 itersLeft, stepsLeft, quietTicks, pollLog, selBefore, holdTicks,
                 holdEntered, levelRun, graphRun, waitTicks, freshEntry, released1,
                 released2, inCombo1, inCombo2, staged, stepSum, isrCalls, bus>>

\* ---- Graph: displayStepGraph, lines 595-665
FgGraphEnter ==
  /\ pc = "graphEnter"
  /\ isGraphDisplayed' = TRUE
  /\ graphRun' = 0
  /\ pc' = "graphPoll"
  /\ UNCHANGED <<b1, b2, systemClock, elapsedSeconds, showFootIcon, totalSteps,
                 wasStepThresholdExceeded, stepsPerSecond, currentSecondIndex,
                 previousStepCount, inactivityCount, stepCount, wasAboveThreshold,
                 currentStepPace, displayedStepPace, currentDisplayPace, rawPace,
                 stepRateHistory, inMainMenu, currentMenuSelection, justEnteredMenu,
                 redrawClock, use12HourFormat, timeFormatOption, inTimeFormatMenu,
                 inTimeSetMenu, timeToSet, timeFieldSelected, dateToSet,
                 dateFieldSelected, button1HoldCount, graphButton1HoldCount,
                 comboPressCount, button1WasPressed, button2WasPressed, wasInMenu,
                 button1Pressed, button2Pressed, tiltCount, currentTimeStr, isPM, ret,
                 samples, clock0, nAdv, pace0, nIter, ticksLeft, pressesLeft,
                 itersLeft, stepsLeft, quietTicks, pollLog, selBefore, holdTicks,
                 holdEntered, levelRun, waitTicks, freshEntry, released1, released2,
                 inCombo1, inCombo2, staged, stepSum, seen, isrCalls, bus, display>>

\* line 649
GraphHoldReached(count) == count >= GRAPH_HOLD_POLLS

\* lines 636-661: one poll of the graph loop
FgGraphPoll ==
  /\ pc = "graphPoll"
  \* the consecutive polls of this visit that read button 1 alone pressed
  /\ graphRun' = IF b1 /\ ~b2 THEN Min(graphRun + 1, 20) ELSE 0
  /\ IF b2
     THEN /\ pc' = "graphWaitB2"
          /\ UNCHANGED <<graphButton1HoldCount, inMainMenu, redrawClock>>
     ELSE IF b1
          THEN /\ graphButton1HoldCount' = U8(graphButton1HoldCount + 1)
               /\ IF GraphHoldReached(graphButton1HoldCount')
                  THEN /\ inMainMenu' = FALSE
                       /\ redrawClock' = TRUE
                       /\ pc' = "graphExit"
                  ELSE /\ pc' = "graphPoll"
                       /\ UNCHANGED <<inMainMenu, redrawClock>>
          ELSE /\ graphButton1HoldCount' = 0
               /\ pc' = "graphPoll"
               /\ UNCHANGED <<inMainMenu, redrawClock>>
  /\ UNCHANGED <<b1, b2, systemClock, elapsedSeconds, showFootIcon, totalSteps,
                 wasStepThresholdExceeded, stepsPerSecond, currentSecondIndex,
                 previousStepCount, inactivityCount, stepCount, wasAboveThreshold,
                 currentStepPace, displayedStepPace, currentDisplayPace, rawPace,
                 stepRateHistory, currentMenuSelection, isGraphDisplayed,
                 justEnteredMenu, use12HourFormat, timeFormatOption, inTimeFormatMenu,
                 inTimeSetMenu, timeToSet, timeFieldSelected, dateToSet,
                 dateFieldSelected, button1HoldCount, comboPressCount,
                 button1WasPressed, button2WasPressed, wasInMenu, button1Pressed,
                 button2Pressed, tiltCount, currentTimeStr, isPM, ret, samples, clock0,
                 nAdv, pace0, nIter, ticksLeft, pressesLeft, itersLeft, stepsLeft,
                 quietTicks, pollLog, selBefore, holdTicks, holdEntered, levelRun,
                 waitTicks, freshEntry, released1, released2, inCombo1, inCombo2,
                 staged, stepSum, seen, isrCalls, bus, display>>

\* lines 640-646
FgGraphWaitB2 ==
  /\ pc = "graphWaitB2" /\ ~b2
  /\ inMainMenu' = TRUE
  \* renderMainMenu(); updateMenuTimeDisplay();
  /\ pc' = "mtHours" /\ ret' = <<"mtHours", "graphExit">>
  /\ UNCHANGED <<b1, b2, systemClock, elapsedSeconds, showFootIcon, totalSteps,
                 wasStepThresholdExceeded, stepsPerSecond, currentSecondIndex,
                 previousStepCount, inactivityCount, stepCount, wasAboveThreshold,
                 currentStepPace, displayedStepPace, currentDisplayPace, rawPace,
                 stepRateHistory, currentMenuSelection, isGraphDisplayed,
                 justEnteredMenu, redrawClock, use12HourFormat, timeFormatOption,
                 inTimeFormatMenu, inTimeSetMenu, timeToSet, timeFieldSelected,
                 dateToSet, dateFieldSelected, button1HoldCount, graphButton1HoldCount,
                 comboPressCount, button1WasPressed, button2WasPressed, wasInMenu,
                 button1Pressed, button2Pressed, tiltCount, currentTimeStr, isPM,
                 samples, clock0, nAdv, pace0, nIter, ticksLeft, pressesLeft,
                 itersLeft, stepsLeft, quietTicks, pollLog, selBefore, holdTicks,
                 holdEntered, levelRun, graphRun, waitTicks, freshEntry, released1,
                 released2, inCombo1, inCombo2, staged, stepSum, seen, isrCalls, bus,
                 display>>

\* line 664
FgGraphExit ==
  /\ pc = "graphExit"
  /\ isGraphDisplayed' = FALSE
  /\ pc' = "afterExec"
  /\ UNCHANGED <<b1, b2, systemClock, elapsedSeconds, showFootIcon, totalSteps,
                 wasStepThresholdExceeded, stepsPerSecond, currentSecondIndex,
                 previousStepCount, inactivityCount, stepCount, wasAboveThreshold,
                 currentStepPace, displayedStepPace, currentDisplayPace, rawPace,
                 stepRateHistory, inMainMenu, currentMenuSelection, justEnteredMenu,
                 redrawClock, use12HourFormat, timeFormatOption, inTimeFormatMenu,
                 inTimeSetMenu, timeToSet, timeFieldSelected, dateToSet,
                 dateFieldSelected, button1HoldCount, graphButton1HoldCount,
                 comboPressCount, button1WasPressed, button2WasPressed, wasInMenu,
                 button1Pressed, button2Pressed, tiltCount, currentTimeStr, isPM, ret,
                 samples, clock0, nAdv, pace0, nIter, ticksLeft, pressesLeft,
                 itersLeft, stepsLeft, quietTicks, pollLog, selBefore, holdTicks,
                 holdEntered, levelRun, graphRun, waitTicks, freshEntry, released1,
                 released2, inCombo1, inCombo2, staged, stepSum, seen, isrCalls, bus,
                 display>>

\* ---- TimeFormatMenu: manageTimeFormatSelection, lines 347-371
\* line 349; line 364, and the same with the two choices exchanged
OptionOfFormat(is12Hour) == IF is12Hour THEN 0 ELSE 1
FormatOfOptionInverted(option) == option = 1
FormatOfOption(option) == option = 0

FgFmtEnter ==
  /\ pc = "fmtEnter"
  /\ inTimeFormatMenu' = TRUE
  /\ timeFormatOption' = OptionOfFormat(use12HourFormat)
  /\ pc' = "fmtPoll"
  /\ UNCHANGED <<b1, b2, systemClock, elapsedSeconds, showFootIcon, totalSteps,
                 wasStepThresholdExceeded, stepsPerSecond, currentSecondIndex,
                 previousStepCount, inactivityCount, stepCount, wasAboveThreshold,
                 currentStepPace, displayedStepPace, currentDisplayPace, rawPace,
                 stepRateHistory, inMainMenu, currentMenuSelection, isGraphDisplayed,
                 justEnteredMenu, redrawClock, use12HourFormat, inTimeSetMenu,
                 timeToSet, timeFieldSelected, dateToSet, dateFieldSelected,
                 button1HoldCount, graphButton1HoldCount, comboPressCount,
                 button1WasPressed, button2WasPressed, wasInMenu, button1Pressed,
                 button2Pressed, tiltCount, currentTimeStr, isPM, ret, samples, clock0,
                 nAdv, pace0, nIter, ticksLeft, pressesLeft, itersLeft, stepsLeft,
                 quietTicks, pollLog, selBefore, holdTicks, holdEntered, levelRun,
                 graphRun, waitTicks, freshEntry, released1, released2, inCombo1,
                 inCombo2, staged, stepSum, seen, isrCalls, bus, display>>

\* lines 354-357, 362: a poll that reads a pressed button (an idle poll changes nothing)
FgFmtPoll ==
  /\ pc = "fmtPoll" /\ (b1 \/ b2)
  /\ pc' = IF b2 THEN "fmtWaitB2" ELSE "fmtWaitB1"
  /\ UNCHANGED <<b1, b2, systemClock, elapsedSeconds, showFootIcon, totalSteps,
                 wasStepThresholdExceeded, stepsPerSecond, currentSecondIndex,
                 previousStepCount, inactivityCount, stepCount, wasAboveThreshold,
                 currentStepPace, displayedStepPace, currentDisplayPace, rawPace,
                 stepRateHistory, inMainMenu, currentMenuSelection, isGraphDisplayed,
                 justEnteredMenu, redrawClock, use12HourFormat, timeFormatOption,
                 inTimeFormatMenu, inTimeSetMenu, timeToSet, timeFieldSelected,
                 dateToSet, dateFieldSelected, button1HoldCount, graphButton1HoldCount,
                 comboPressCount, button1WasPressed, button2WasPressed, wasInMenu,
                 button1Pressed, button2Pressed, tiltCount, currentTimeStr, isPM, ret,
                 samples, clock0, nAdv, pace0, nIter, ticksLeft, pressesLeft,
                 itersLeft, stepsLeft, quietTicks, pollLog, selBefore, holdTicks,
                 holdEntered, levelRun, graphRun, waitTicks, freshEntry, released1,
                 released2, inCombo1, inCombo2, staged, stepSum, seen, isrCalls, bus,
                 display>>

\* lines 358-361
FgFmtWaitB2 ==
  /\ pc = "fmtWaitB2" /\ ~b2
  /\ timeFormatOption' = (timeFormatOption + 1) % 2
  /\ pc' = "fmtPoll"
  /\ UNCHANGED <<b1, b2, systemClock, elapsedSeconds, showFootIcon, totalSteps,
                 wasStepThresholdExceeded, stepsPerSecond, currentSecondIndex,
                 previousStepCount, inactivityCount, stepCount, wasAboveThreshold,
                 currentStepPace, displayedStepPace, currentDisplayPace, rawPace,
                 stepRateHistory, inMainMenu, currentMenuSelection, isGraphDisplayed,
                 justEnteredMenu, redrawClock, use12HourFormat, inTimeFormatMenu,
                 inTimeSetMenu, timeToSet, timeFieldSelected, dateToSet,
                 dateFieldSelected, button1HoldCount, graphButton1HoldCount,
                 comboPressCount, button1WasPressed, button2WasPressed, wasInMenu,
                 button1Pressed, button2Pressed, tiltCount, currentTimeStr, isPM, ret,
                 samples, clock0, nAdv, pace0, nIter, ticksLeft, pressesLeft,
                 itersLeft, stepsLeft, quietTicks, pollLog, selBefore, holdTicks,
                 holdEntered, levelRun, graphRun, waitTicks, freshEntry, released1,
                 released2, inCombo1, inCombo2, staged, stepSum, seen, isrCalls, bus,
                 display>>

\* lines 363-367, and line 721 after the page has returned
FgFmtWaitB1 ==
  /\ pc = "fmtWaitB1" /\ ~b1
  /\ use12HourFormat' = FormatOfOption(timeFormatOption)
  /\ inTimeFormatMenu' = FALSE
  \* renderMainMenu(); updateMenuTimeDisplay();
  /\ pc' = "mtHours" /\ ret' = <<"mtHours", "afterExec">>
  /\ UNCHANGED <<b1, b2, systemClock, elapsedSeconds, showFootIcon, totalSteps,
                 wasStepThresholdExceeded, stepsPerSecond, currentSecondIndex,
                 previousStepCount, inactivityCount, stepCount, wasAboveThreshold,
                 currentStepPace, displayedStepPace, currentDisplayPace, rawPace,
                 stepRateHistory, inMainMenu, currentMenuSelection, isGraphDisplayed,
                 justEnteredMenu, redrawClock, timeFormatOption, inTimeSetMenu,
                 timeToSet, timeFieldSelected, dateToSet, dateFieldSelected,
                 button1HoldCount, graphButton1HoldCount, comboPressCount,
                 button1WasPressed, button2WasPressed, wasInMenu, button1Pressed,
                 button2Pressed, tiltCount, currentTimeStr, isPM, samples, clock0,
                 nAdv, pace0, nIter, ticksLeft, pressesLeft, itersLeft, stepsLeft,
                 quietTicks, pollLog, selBefore, holdTicks, holdEntered, levelRun,
                 graphRun, waitTicks, freshEntry, released1, released2, inCombo1,
                 inCombo2, staged, stepSum, seen, isrCalls, bus, display>>

\* ---- tilt confirmation: checkTiltToSave, lines 444-457
TiltInputs ==
  { [x |-> 0, y |-> 0, z |-> 256],      \* magnitude 1024
    [x |-> 150, y |-> 0, z |-> 0],      \* magnitude 600
    [x |-> 149, y |-> 0, z |-> 0] }     \* magnitude 596
checkTiltToSave(a) == F32Less(Magnitude(a), F32(TILT_THRESHOLD))

\* ---- SetTimeMenu: manageTimeSetPage and processTimeSetInput
\* lines 461-462
FgTsStageH ==
  /\ pc = "tsStageH"
  /\ inTimeSetMenu' = TRUE /\ levelRun' = 0
  /\ staged' = [clock |-> systemClock, presses |-> pressesLeft]
  /\ timeToSet' = [timeToSet EXCEPT !.hours = systemClock.hours]
  /\ pc' = "tsStageM"
  /\ UNCHANGED <<b1, b2, systemClock, elapsedSeconds, showFootIcon, totalSteps,
                 wasStepThresholdExceeded, stepsPerSecond, currentSecondIndex,
                 previousStepCount, inactivityCount, stepCount, wasAboveThreshold,
                 currentStepPace, displayedStepPace, currentDisplayPace, rawPace,
                 stepRateHistory, inMainMenu, currentMenuSelection, isGraphDisplayed,
                 justEnteredMenu, redrawClock, use12HourFormat, timeFormatOption,
                 inTimeFormatMenu, timeFieldSelected, dateToSet, dateFieldSelected,
                 button1HoldCount, graphButton1HoldCount, comboPressCount,
                 button1WasPressed, button2WasPressed, wasInMenu, button1Pressed,
                 button2Pressed, tiltCount, currentTimeStr, isPM, ret, samples, clock0,
                 nAdv, pace0, nIter, ticksLeft, pressesLeft, itersLeft, stepsLeft,
                 quietTicks, pollLog, selBefore, holdTicks, holdEntered, graphRun,
                 waitTicks, freshEntry, released1, released2, inCombo1, inCombo2,
                 stepSum, seen, isrCalls, bus, display>>

\* lines 463-466
FgTsStageM ==
  /\ pc = "tsStageM"
  /\ timeToSet' = [timeToSet EXCEPT !.minutes = systemClock.minutes]
  /\ timeFieldSelected' = 0
  /\ pc' = "tsWaitRelease"
  /\ UNCHANGED <<b1, b2, systemClock, elapsedSeconds, showFootIcon, totalSteps,
                 wasStepThresholdExceeded, stepsPerSecond, currentSecondIndex,
                 previousStepCount, inactivityCount, stepCount, wasAboveThreshold,
                 currentStepPace, displayedStepPace, currentDisplayPace, rawPace,
                 stepRateHistory, inMainMenu, currentMenuSelection, isGraphDisplayed,
                 justEnteredMenu, redrawClock, use12HourFormat, timeFormatOption,
                 inTimeFormatMenu, inTimeSetMenu, dateToSet, dateFieldSelected,
                 button1HoldCount, graphButton1HoldCount, comboPressCount,
                 button1WasPressed, button2WasPressed, wasInMenu, button1Pressed,
                 button2Pressed, tiltCount, currentTimeStr, isPM, ret, samples, clock0,
                 nAdv, pace0, nIter, ticksLeft, pressesLeft, itersLeft, stepsLeft,
                 quietTicks, pollLog, selBefore, holdTicks, holdEntered, levelRun,
                 graphRun, waitTicks, freshEntry, released1, released2, inCombo1,
                 inCombo2, staged, stepSum, seen, isrCalls, bus, display>>

\* lines 468-470
FgTsWaitRelease ==
  /\ pc = "tsWaitRelease" /\ ~b1 /\ ~b2
  /\ tiltCount' = 0
  /\ pc' = "tsPoll"
  /\ UNCHANGED <<b1, b2, systemClock, elapsedSeconds, showFootIcon, totalSteps,
                 wasStepThresholdExceeded, stepsPerSecond, currentSecondIndex,
                 previousStepCount, inactivityCount, stepCount, wasAboveThreshold,
                 currentStepPace, displayedStepPace, currentDisplayPace, rawPace,
                 stepRateHistory, inMainMenu, currentMenuSelection, isGraphDisplayed,
                 justEnteredMenu, redrawClock, use12HourFormat, timeFormatOption,
                 inTimeFormatMenu, inTimeSetMenu, timeToSet, timeFieldSelected,
                 dateToSet, dateFieldSelected, button1HoldCount, graphButton1HoldCount,
                 comboPressCount, button1WasPressed, button2WasPressed, wasInMenu,
                 button1Pressed, button2Pressed, currentTimeStr, isPM, ret, samples,
                 clock0, nAdv, pace0, nIter, ticksLeft, pressesLeft, itersLeft,
                 stepsLeft, quietTicks, pollLog, selBefore, holdTicks, holdEntered,
                 levelRun, graphRun, waitTicks, freshEntry, released1, released2,
                 inCombo1, inCombo2, staged, stepSum, seen, isrCalls, bus, display>>

\* lines 416-419, 424, 432: processTimeSetInput samples the buttons
FgTsPoll ==
  /\ pc = "tsPoll"
  /\ pc' = IF b1 /\ b2 THEN "tsWaitCombo"
           ELSE IF b1 THEN "tsWaitB1"
           ELSE IF b2 THEN "tsWaitB2"
           ELSE "tsTilt"
  /\ UNCHANGED <<b1, b2, systemClock, elapsedSeconds, showFootIcon, totalSteps,
                 wasStepThresholdExceeded, stepsPerSecond, currentSecondIndex,
                 previousStepCount, inactivityCount, stepCount, wasAboveThreshold,
                 currentStepPace, displayedStepPace, currentDisplayPace, rawPace,
                 stepRateHistory, inMainMenu, currentMenuSelection, isGraphDisplayed,
                 justEnteredMenu, redrawClock, use12HourFormat, timeFormatOption,
                 inTimeFormatMenu, inTimeSetMenu, timeToSet, timeFieldSelected,
                 dateToSet, dateFieldSelected, button1HoldCount, graphButton1HoldCount,
                 comboPressCount, button1WasPressed, button2WasPressed, wasInMenu,
                 button1Pressed, button2Pressed, tiltCount, currentTimeStr, isPM, ret,
                 samples, clock0, nAdv, pace0, nIter, ticksLeft, pressesLeft,
                 itersLeft, stepsLeft, quietTicks, pollLog, selBefore, holdTicks,
                 holdEntered, levelRun, graphRun, waitTicks, freshEntry, released1,
                 released2, inCombo1, inCombo2, staged, stepSum, seen, isrCalls, bus,
                 display>>

\* !fieldSelected on a uint8_t
ToggleField(f) == IF f = 0 THEN 1 ELSE 0

\* lines 420-423
FgTsWaitCombo ==
  /\ pc = "tsWaitCombo" /\ ~(b1 /\ b2)
  /\ timeFieldSelected' = ToggleField(timeFieldSelected)
  /\ pc' = "tsTilt"
  /\ UNCHANGED <<b1, b2, systemClock, elapsedSeconds, showFootIcon, totalSteps,
                 wasStepThresholdExceeded, stepsPerSecond, currentSecondIndex,
                 previousStepCount, inactivityCount, stepCount, wasAboveThreshold,
                 currentStepPace, displayedStepPace, currentDisplayPace, rawPace,
                 stepRateHistory, inMainMenu, currentMenuSelection, isGraphDisplayed,
                 justEnteredMenu, redrawClock, use12HourFormat, timeFormatOption,
                 inTimeFormatMenu, inTimeSetMenu, timeToSet, dateToSet,
                 dateFieldSelected, button1HoldCount, graphButton1HoldCount,
                 comboPressCount, button1WasPressed, button2WasPressed, wasInMenu,
                 button1Pressed, button2Pressed, tiltCount, currentTimeStr, isPM, ret,
                 samples, clock0, nAdv, pace0, nIter, ticksLeft, pressesLeft,
                 itersLeft, stepsLeft, quietTicks, pollLog, selBefore, holdTicks,
                 holdEntered, levelRun, graphRun, waitTicks, freshEntry, released1,
                 released2, inCombo1, inCombo2, staged, stepSum, seen, isrCalls, bus,
                 display>>

\* lines 426-429 and 434-437
TimeIncrement(t, field) ==
  IF field = 0 THEN [t EXCEPT !.hours = (t.hours + 1) % 24]
  ELSE [t EXCEPT !.minutes = (t.minutes + 1) % 60]
TimeDecrement(t, field) ==
  IF field = 0 THEN [t EXCEPT !.hours = IF t.hours = 0 THEN 23 ELSE t.hours - 1]
  ELSE [t EXCEPT !.minutes = IF t.minutes = 0 THEN 59 ELSE t.minutes - 1]

FgTsWaitB1 ==
  /\ pc = "tsWaitB1" /\ ~b1
  /\ timeToSet' = TimeIncrement(timeToSet, timeFieldSelected)
  /\ pc' = "tsTilt"
  /\ UNCHANGED <<b1, b2, systemClock, elapsedSeconds, showFootIcon, totalSteps,
                 wasStepThresholdExceeded, stepsPerSecond, currentSecondIndex,
                 previousStepCount, inactivityCount, stepCount, wasAboveThreshold,
                 currentStepPace, displayedStepPace, currentDisplayPace, rawPace,
                 stepRateHistory, inMainMenu, currentMenuSelection, isGraphDisplayed,
                 justEnteredMenu, redrawClock, use12HourFormat, timeFormatOption,
                 inTimeFormatMenu, inTimeSetMenu, timeFieldSelected, dateToSet,
                 dateFieldSelected, button1HoldCount, graphButton1HoldCount,
                 comboPressCount, button1WasPressed, button2WasPressed, wasInMenu,
                 button1Pressed, button2Pressed, tiltCount, currentTimeStr, isPM, ret,
                 samples, clock0, nAdv, pace0, nIter, ticksLeft, pressesLeft,
                 itersLeft, stepsLeft, quietTicks, pollLog, selBefore, holdTicks,
                 holdEntered, levelRun, graphRun, waitTicks, freshEntry, released1,
                 released2, inCombo1, inCombo2, staged, stepSum, seen, isrCalls, bus,
                 display>>

FgTsWaitB2 ==
  /\ pc = "tsWaitB2" /\ ~b2
  /\ timeToSet' = TimeDecrement(timeToSet, timeFieldSelected)
  /\ pc' = "tsTilt"
  /\ UNCHANGED <<b1, b2, systemClock, elapsedSeconds, showFootIcon, totalSteps,
                 wasStepThresholdExceeded, stepsPerSecond, currentSecondIndex,
                 previousStepCount, inactivityCount, stepCount, wasAboveThreshold,
                 currentStepPace, displayedStepPace, currentDisplayPace, rawPace,
                 stepRateHistory, inMainMenu, currentMenuSelection, isGraphDisplayed,
                 justEnteredMenu, redrawClock, use12HourFormat, timeFormatOption,
                 inTimeFormatMenu, inTimeSetMenu, timeFieldSelected, dateToSet,
                 dateFieldSelected, button1HoldCount, graphButton1HoldCount,
                 comboPressCount, button1WasPressed, button2WasPressed, wasInMenu,
                 button1Pressed, button2Pressed, tiltCount, currentTimeStr, isPM, ret,
                 samples, clock0, nAdv, pace0, nIter, ticksLeft, pressesLeft,
                 itersLeft, stepsLeft, quietTicks, pollLog, selBefore, holdTicks,
                 holdEntered, levelRun, graphRun, waitTicks, freshEntry, released1,
                 released2, inCombo1, inCombo2, staged, stepSum, seen, isrCalls, bus,
                 display>>

\* lines 473-476 and 482-484: the tilt poll; a completed streak starts the commit
FgTsTilt ==
  /\ pc = "tsTilt"
  /\ \E a \in TiltInputs :
       /\ levelRun' = IF checkTiltToSave(a) THEN Min(levelRun + 1, 2) ELSE 0
       /\ IF checkTiltToSave(a)
          THEN /\ tiltCount' = tiltCount + 1
               /\ IF tiltCount' >= TILT_STREAK
                  THEN /\ systemClock' = [systemClock EXCEPT !.hours = timeToSet.hours]
                       /\ pc' = "tsCommitM"
                  ELSE /\ pc' = "tsPoll"
                       /\ UNCHANGED systemClock
          ELSE /\ tiltCount' = 0
               /\ pc' = "tsPoll"
               /\ UNCHANGED systemClock
  /\ UNCHANGED <<b1, b2, elapsedSeconds, showFootIcon, totalSteps,
                 wasStepThresholdExceeded, stepsPerSecond, currentSecondIndex,
                 previousStepCount, inactivityCount, stepCount, wasAboveThreshold,
                 currentStepPace, displayedStepPace, currentDisplayPace, rawPace,
                 stepRateHistory, inMainMenu, currentMenuSelection, isGraphDisplayed,
                 justEnteredMenu, redrawClock, use12HourFormat, timeFormatOption,
                 inTimeFormatMenu, inTimeSetMenu, timeToSet, timeFieldSelected,
                 dateToSet, dateFieldSelected, button1HoldCount, graphButton1HoldCount,
                 comboPressCount, button1WasPressed, button2WasPressed, wasInMenu,
                 button1Pressed, button2Pressed, currentTimeStr, isPM, ret, samples,
                 clock0, nAdv, pace0, nIter, ticksLeft, pressesLeft, itersLeft,
                 stepsLeft, quietTicks, pollLog, selBefore, holdTicks, holdEntered,
                 graphRun, waitTicks, freshEntry, released1, released2, inCombo1,
                 inCombo2, staged, stepSum, seen, isrCalls, bus, display>>

\* line 477
FgTsCommitM ==
  /\ pc = "tsCommitM"
  /\ systemClock' = [systemClock EXCEPT !.minutes = timeToSet.minutes]
  /\ pc' = "tsCommitS"
  /\ UNCHANGED <<b1, b2, elapsedSeconds, showFootIcon, totalSteps,
                 wasStepThresholdExceeded, stepsPerSecond, currentSecondIndex,
                 previousStepCount, inactivityCount, stepCount, wasAboveThreshold,
                 currentStepPace, displayedStepPace, currentDisplayPace, rawPace,
                 stepRateHistory, inMainMenu, currentMenuSelection, isGraphDisplayed,
                 justEnteredMenu, redrawClock, use12HourFormat, timeFormatOption,
                 inTimeFormatMenu, inTimeSetMenu, timeToSet, timeFieldSelected,
                 dateToSet, dateFieldSelected, button1HoldCount, graphButton1HoldCount,
                 comboPressCount, button1WasPressed, button2WasPressed, wasInMenu,
                 button1Pressed, button2Pressed, tiltCount, currentTimeStr, isPM, ret,
                 samples, clock0, nAdv, pace0, nIter, ticksLeft, pressesLeft,
                 itersLeft, stepsLeft, quietTicks, pollLog, selBefore, holdTicks,
                 holdEntered, levelRun, graphRun, waitTicks, freshEntry, released1,
                 released2, inCombo1, inCombo2, staged, stepSum, seen, isrCalls, bus,
                 display>>

\* lines 478-480, and line 722 after the page has returned
FgTsCommitS ==
  /\ pc = "tsCommitS"
  /\ systemClock' = [systemClock EXCEPT !.seconds = 0]
  /\ inTimeSetMenu' = FALSE
  \* renderMainMenu(); updateMenuTimeDisplay();
  /\ pc' = "mtHours" /\ ret' = <<"mtHours", "afterExec">>
  /\ UNCHANGED <<b1, b2, elapsedSeconds, showFootIcon, totalSteps,
                 wasStepThresholdExceeded, stepsPerSecond, currentSecondIndex,
                 previousStepCount, inactivityCount, stepCount, wasAboveThreshold,
                 currentStepPace, displayedStepPace, currentDisplayPace, rawPace,
                 stepRateHistory, inMainMenu, currentMenuSelection, isGraphDisplayed,
                 justEnteredMenu, redrawClock, use12HourFormat, timeFormatOption,
                 inTimeFormatMenu, timeToSet, timeFieldSelected, dateToSet,
                 dateFieldSelected, button1HoldCount, graphButton1HoldCount,
                 comboPressCount, button1WasPressed, button2WasPressed, wasInMenu,
                 button1Pressed, button2Pressed, tiltCount, currentTimeStr, isPM,
                 samples, clock0, nAdv, pace0, nIter, ticksLeft, pressesLeft,
                 itersLeft, stepsLeft, quietTicks, pollLog, selBefore, holdTicks,
                 holdEntered, levelRun, graphRun, waitTicks, freshEntry, released1,
                 released2, inCombo1, inCombo2, staged, stepSum, seen, isrCalls, bus,
                 display>>

\* ---- SetDateMenu: manageDateSetPage and processDateSetInput
\* lines 567-568
FgDsStageD ==
  /\ pc = "dsStageD"
  /\ inTimeSetMenu' = TRUE /\ levelRun' = 0
  /\ staged' = [clock |-> systemClock, presses |-> pressesLeft]
  /\ dateToSet' = [dateToSet EXCEPT !.day = systemClock.day]
  /\ pc' = "dsStageM"
  /\ UNCHANGED <<b1, b2, systemClock, elapsedSeconds, showFootIcon, totalSteps,
                 wasStepThresholdExceeded, stepsPerSecond, currentSecondIndex,
                 previousStepCount, inactivityCount, stepCount, wasAboveThreshold,
                 currentStepPace, displayedStepPace, currentDisplayPace, rawPace,
                 stepRateHistory, inMainMenu, currentMenuSelection, isGraphDisplayed,
                 justEnteredMenu, redrawClock, use12HourFormat, timeFormatOption,
                 inTimeFormatMenu, timeToSet, timeFieldSelected, dateFieldSelected,
                 button1HoldCount, graphButton1HoldCount, comboPressCount,
                 button1WasPressed, button2WasPressed, wasInMenu, button1Pressed,
                 button2Pressed, tiltCount, currentTimeStr, isPM, ret, samples, clock0,
                 nAdv, pace0, nIter, ticksLeft, pressesLeft, itersLeft, stepsLeft,
                 quietTicks, pollLog, selBefore, holdTicks, holdEntered, graphRun,
                 waitTicks, freshEntry, released1, released2, inCombo1, inCombo2,
                 stepSum, seen, isrCalls, bus, display>>

\* lines 569-572
FgDsStageM ==
  /\ pc = "dsStageM"
  /\ dateToSet' = [dateToSet EXCEPT !.month = systemClock.month]
  /\ dateFieldSelected' = 0
  /\ pc' = "dsWaitRelease"
  /\ UNCHANGED <<b1, b2, systemClock, elapsedSeconds, showFootIcon, totalSteps,
                 wasStepThresholdExceeded, stepsPerSecond, currentSecondIndex,
                 previousStepCount, inactivityCount, stepCount, wasAboveThreshold,
                 currentStepPace, displayedStepPace, currentDisplayPace, rawPace,
                 stepRateHistory, inMainMenu, currentMenuSelection, isGraphDisplayed,
                 justEnteredMenu, redrawClock, use12HourFormat, timeFormatOption,
                 inTimeFormatMenu, inTimeSetMenu, timeToSet, timeFieldSelected,
                 button1HoldCount, graphButton1HoldCount, comboPressCount,
                 button1WasPressed, button2WasPressed, wasInMenu, button1Pressed,
                 button2Pressed, tiltCount, currentTimeStr, isPM, ret, samples, clock0,
                 nAdv, pace0, nIter, ticksLeft, pressesLeft, itersLeft, stepsLeft,
                 quietTicks, pollLog, selBefore, holdTicks, holdEntered, levelRun,
                 graphRun, waitTicks, freshEntry, released1, released2, inCombo1,
                 inCombo2, staged, stepSum, seen, isrCalls, bus, display>>

\* lines 574-576
FgDsWaitRelease ==
  /\ pc = "dsWaitRelease" /\ ~b1 /\ ~b2
  /\ tiltCount' = 0
  /\ pc' = "dsPoll"
  /\ UNCHANGED <<b1, b2, systemClock, elapsedSeconds, showFootIcon, totalSteps,
                 wasStepThresholdExceeded, stepsPerSecond, currentSecondIndex,
                 previousStepCount, inactivityCount, stepCount, wasAboveThreshold,
                 currentStepPace, displayedStepPace, currentDisplayPace, rawPace,
                 stepRateHistory, inMainMenu, currentMenuSelection, isGraphDisplayed,
                 justEnteredMenu, redrawClock, use12HourFormat, timeFormatOption,
                 inTimeFormatMenu, inTimeSetMenu, timeToSet, timeFieldSelected,
                 dateToSet, dateFieldSelected, button1HoldCount, graphButton1HoldCount,
                 comboPressCount, button1WasPressed, button2WasPressed, wasInMenu,
                 button1Pressed, button2Pressed, currentTimeStr, isPM, ret, samples,
                 clock0, nAdv, pace0, nIter, ticksLeft, pressesLeft, itersLeft,
                 stepsLeft, quietTicks, pollLog, selBefore, holdTicks, holdEntered,
                 levelRun, graphRun, waitTicks, freshEntry, released1, released2,
                 inCombo1, inCombo2, staged, stepSum, seen, isrCalls, bus, display>>

\* lines 523-526, 531, 544
FgDsPoll ==
  /\ pc = "dsPoll"
  /\ pc' = IF b1 /\ b2 THEN "dsWaitCombo"
           ELSE IF b1 THEN "dsWaitB1"
           ELSE IF b2 THEN "dsWaitB2"
           ELSE "dsTilt"
  /\ UNCHANGED <<b1, b2, systemClock, elapsedSeconds, showFootIcon, totalSteps,
                 wasStepThresholdExceeded, stepsPerSecond, currentSecondIndex,
                 previousStepCount, inactivityCount, stepCount, wasAboveThreshold,
                 currentStepPace, displayedStepPace, currentDisplayPace, rawPace,
                 stepRateHistory, inMainMenu, currentMenuSelection, isGraphDisplayed,
                 justEnteredMenu, redrawClock, use12HourFormat, timeFormatOption,
                 inTimeFormatMenu, inTimeSetMenu, timeToSet, timeFieldSelected,
                 dateToSet, dateFieldSelected, button1HoldCount, graphButton1HoldCount,
                 comboPressCount, button1WasPressed, button2WasPressed, wasInMenu,
                 button1Pressed, button2Pressed, tiltCount, currentTimeStr, isPM, ret,
                 samples, clock0, nAdv, pace0, nIter, ticksLeft, pressesLeft,
                 itersLeft, stepsLeft, quietTicks, pollLog, selBefore, holdTicks,
                 holdEntered, levelRun, graphRun, waitTicks, freshEntry, released1,
                 released2, inCombo1, inCombo2, staged, stepSum, seen, isrCalls, bus,
                 display>>

\* lines 527-530
FgDsWaitCombo ==
  /\ pc = "dsWaitCombo" /\ ~(b1 /\ b2)
  /\ dateFieldSelected' = ToggleField(dateFieldSelected)
  /\ pc' = "dsTilt"
  /\ UNCHANGED <<b1, b2, systemClock, elapsedSeconds, showFootIcon, totalSteps,
                 wasStepThresholdExceeded, stepsPerSecond, currentSecondIndex,
                 previousStepCount, inactivityCount, stepCount, wasAboveThreshold,
                 currentStepPace, displayedStepPace, currentDisplayPace, rawPace,
                 stepRateHistory, inMainMenu, currentMenuSelection, isGraphDisplayed,
                 justEnteredMenu, redrawClock, use12HourFormat, timeFormatOption,
                 inTimeFormatMenu, inTimeSetMenu, timeToSet, timeFieldSelected,
                 dateToSet, button1HoldCount, graphButton1HoldCount, comboPressCount,
                 button1WasPressed, button2WasPressed, wasInMenu, button1Pressed,
                 button2Pressed, tiltCount, currentTimeStr, isPM, ret, samples, clock0,
                 nAdv, pace0, nIter, ticksLeft, pressesLeft, itersLeft, stepsLeft,
                 quietTicks, pollLog, selBefore, holdTicks, holdEntered, levelRun,
                 graphRun, waitTicks, freshEntry, released1, released2, inCombo1,
                 inCombo2, staged, stepSum, seen, isrCalls, bus, display>>

\* the clamp of lines 538-540 and 556-558
ClampDay(d, month) == IF d > DAYS_PER_MONTH[month] THEN DAYS_PER_MONTH[month] ELSE d

\* lines 533-541
DateIncrement(d, field) ==
  IF field = 0
  THEN [d EXCEPT !.day = (d.day % DAYS_PER_MONTH[d.month]) + 1]
  ELSE LET m == (d.month % 12) + 1
       IN [day |-> ClampDay(d.day, m), month |-> m]
\* lines 546-559
DateDecrement(d, field) ==
  IF field = 0
  THEN [d EXCEPT !.day = IF d.day = 1 THEN DAYS_PER_MONTH[d.month] ELSE d.day - 1]
  ELSE LET m == IF d.month = 1 THEN 12 ELSE d.month - 1
       IN [day |-> ClampDay(d.day, m), month |-> m]

FgDsWaitB1 ==
  /\ pc = "dsWaitB1" /\ ~b1
  /\ dateToSet' = DateIncrement(dateToSet, dateFieldSelected)
  /\ pc' = "dsTilt"
  /\ UNCHANGED <<b1, b2, systemClock, elapsedSeconds, showFootIcon, totalSteps,
                 wasStepThresholdExceeded, stepsPerSecond, currentSecondIndex,
                 previousStepCount, inactivityCount, stepCount, wasAboveThreshold,
                 currentStepPace, displayedStepPace, currentDisplayPace, rawPace,
                 stepRateHistory, inMainMenu, currentMenuSelection, isGraphDisplayed,
                 justEnteredMenu, redrawClock, use12HourFormat, timeFormatOption,
                 inTimeFormatMenu, inTimeSetMenu, timeToSet, timeFieldSelected,
                 dateFieldSelected, button1HoldCount, graphButton1HoldCount,
                 comboPressCount, button1WasPressed, button2WasPressed, wasInMenu,
                 button1Pressed, button2Pressed, tiltCount, currentTimeStr, isPM, ret,
                 samples, clock0, nAdv, pace0, nIter, ticksLeft, pressesLeft,
                 itersLeft, stepsLeft, quietTicks, pollLog, selBefore, holdTicks,
                 holdEntered, levelRun, graphRun, waitTicks, freshEntry, released1,
                 released2, inCombo1, inCombo2, staged, stepSum, seen, isrCalls, bus,
                 display>>

FgDsWaitB2 ==
  /\ pc = "dsWaitB2" /\ ~b2
  /\ dateToSet' = DateDecrement(dateToSet, dateFieldSelected)
  /\ pc' = "dsTilt"
  /\ UNCHANGED <<b1, b2, systemClock, elapsedSeconds, showFootIcon, totalSteps,
                 wasStepThresholdExceeded, stepsPerSecond, currentSecondIndex,
                 previousStepCount, inactivityCount, stepCount, wasAboveThreshold,
                 currentStepPace, displayedStepPace, currentDisplayPace, rawPace,
                 stepRateHistory, inMainMenu, currentMenuSelection, isGraphDisplayed,
                 justEnteredMenu, redrawClock, use12HourFormat, timeFormatOption,
                 inTimeFormatMenu, inTimeSetMenu, timeToSet, timeFieldSelected,
                 dateFieldSelected, button1HoldCount, graphButton1HoldCount,
                 comboPressCount, button1WasPressed, button2WasPressed, wasInMenu,
                 button1Pressed, button2Pressed, tiltCount, currentTimeStr, isPM, ret,
                 samples, clock0, nAdv, pace0, nIter, ticksLeft, pressesLeft,
                 itersLeft, stepsLeft, quietTicks, pollLog, selBefore, holdTicks,
                 holdEntered, levelRun, graphRun, waitTicks, freshEntry, released1,
                 released2, inCombo1, inCombo2, staged, stepSum, seen, isrCalls, bus,
                 display>>

\* lines 579-582 and 587-589
FgDsTilt ==
  /\ pc = "dsTilt"
  /\ \E a \in TiltInputs :
       /\ levelRun' = IF checkTiltToSave(a) THEN Min(levelRun + 1, 2) ELSE 0
       /\ IF checkTiltToSave(a)
          THEN /\ tiltCount' = tiltCount + 1
               /\ IF tiltCount' >= TILT_STREAK
                  THEN /\ systemClock' = [systemClock EXCEPT !.day = dateToSet.day]
                       /\ pc' = "dsCommitM"
                  ELSE /\ pc' = "dsPoll"
                       /\ UNCHANGED systemClock
          ELSE /\ tiltCount' = 0
               /\ pc' = "dsPoll"
               /\ UNCHANGED systemClock
  /\ UNCHANGED <<b1, b2, elapsedSeconds, showFootIcon, totalSteps,
                 wasStepThresholdExceeded, stepsPerSecond, currentSecondIndex,
                 previousStepCount, inactivityCount, stepCount, wasAboveThreshold,
                 currentStepPace, displayedStepPace, currentDisplayPace, rawPace,
                 stepRateHistory, inMainMenu, currentMenuSelection, isGraphDisplayed,
                 justEnteredMenu, redrawClock, use12HourFormat, timeFormatOption,
                 inTimeFormatMenu, inTimeSetMenu, timeToSet, timeFieldSelected,
                 dateToSet, dateFieldSelected, button1HoldCount, graphButton1HoldCount,
                 comboPressCount, button1WasPressed, button2WasPressed, wasInMenu,
                 button1Pressed, button2Pressed, currentTimeStr, isPM, ret, samples,
                 clock0, nAdv, pace0, nIter, ticksLeft, pressesLeft, itersLeft,
                 stepsLeft, quietTicks, pollLog, selBefore, holdTicks, holdEntered,
                 graphRun, waitTicks, freshEntry, released1, released2, inCombo1,
                 inCombo2, staged, stepSum, seen, isrCalls, bus, display>>

\* lines 583-585, and line 723 after the page has returned
FgDsCommitM ==
  /\ pc = "dsCommitM"
  /\ systemClock' = [systemClock EXCEPT !.month = dateToSet.month]
  /\ inTimeSetMenu' = FALSE
  \* renderMainMenu(); updateMenuTimeDisplay();
  /\ pc' = "mtHours" /\ ret' = <<"mtHours", "afterExec">>
  /\ UNCHANGED <<b1, b2, elapsedSeconds, showFootIcon, totalSteps,
                 wasStepThresholdExceeded, stepsPerSecond, currentSecondIndex,
                 previousStepCount, inactivityCount, stepCount, wasAboveThreshold,
                 currentStepPace, displayedStepPace, currentDisplayPace, rawPace,
                 stepRateHistory, inMainMenu, currentMenuSelection, isGraphDisplayed,
                 justEnteredMenu, redrawClock, use12HourFormat, timeFormatOption,
                 inTimeFormatMenu, timeToSet, timeFieldSelected, dateToSet,
                 dateFieldSelected, button1HoldCount, graphButton1HoldCount,
                 comboPressCount, button1WasPressed, button2WasPressed, wasInMenu,
                 button1Pressed, button2Pressed, tiltCount, currentTimeStr, isPM,
                 samples, clock0, nAdv, pace0, nIter, ticksLeft, pressesLeft,
                 itersLeft, stepsLeft, quietTicks, pollLog, selBefore, holdTicks,
                 holdEntered, levelRun, graphRun, waitTicks, freshEntry, released1,
                 released2, inCombo1, inCombo2, staged, stepSum, seen, isrCalls, bus,
                 display>>


\* ---- fatal halt: haltWithError, lines 126-130
\* reached from a sensor read whose last bus attempt failed (lines 139, 146), in
\* detectStep (line 915) or in checkTiltToSave (lines 473, 579): the diagnostic is
\* drawn and the foreground code spins in while (1)
HaltSites == {"detect", "tsTilt", "dsTilt"}
FgHalt ==
  /\ pc \in HaltSites
  /\ pc' = "halted"
  /\ UNCHANGED <<b1, b2, systemClock, elapsedSeconds, showFootIcon, totalSteps,
                 wasStepThresholdExceeded, stepsPerSecond, currentSecondIndex,
                 previousStepCount, inactivityCount, stepCount, wasAboveThreshold,
                 currentStepPace, displayedStepPace, currentDisplayPace, rawPace,
                 stepRateHistory, inMainMenu, currentMenuSelection, isGraphDisplayed,
                 justEnteredMenu, redrawClock, use12HourFormat, timeFormatOption,
                 inTimeFormatMenu, inTimeSetMenu, timeToSet, timeFieldSelected,
                 dateToSet, dateFieldSelected, button1HoldCount, graphButton1HoldCount,
                 comboPressCount, button1WasPressed, button2WasPressed, wasInMenu,
                 button1Pressed, button2Pressed, tiltCount, currentTimeStr, isPM, ret,
                 samples, clock0, nAdv, pace0, nIter, ticksLeft, pressesLeft,
                 itersLeft, stepsLeft, quietTicks, pollLog, selBefore, holdTicks,
                 holdEntered, levelRun, graphRun, waitTicks, freshEntry, released1,
                 released2, inCombo1, inCombo2, staged, stepSum, seen, isrCalls, bus,
                 display>>
\* ---- the system: the tick handler preempts the foreground code anywhere
\* The state after k idle seconds in Clock mode (no button, no step): only the
\* tick handler's counters have moved.
IdleSeconds(t) == (SecondOfYear(t) - SecondOfYear(BootClock)) % (365 * 86400)

\* power-on: the static initializers, main() about to enter its loop
InitBoot ==
  /\ InitEnv /\ InitClock /\ InitSteps /\ InitAcc /\ InitPace /\ InitSysState
  /\ InitPureHist /\ bus = BusIdle /\ display = DispBoot
  /\ ticksLeft = MaxTicks /\ pressesLeft = MaxPresses
  /\ itersLeft = MaxClockIters /\ stepsLeft = MaxSteps
  /\ InitSysNotes /\ seen = SeenNone /\ isrCalls = {}

\* what the renderers hold after the clock face was drawn for `face` with the
\* pace text empty, and the menu time for `menu` (<<>>: never), in 12-hour mode
DispDrawn(face, menu) ==
  [DispBoot EXCEPT !.lastHours = DisplayHours(face.hours, TRUE),
                   !.lastMinutes = face.minutes, !.lastSeconds = face.seconds,
                   !.lastWas12Hour = TRUE, !.lastIsPM = IsPM(face.hours, TRUE),
                   !.lastDay = face.day, !.lastMonth = face.month,
                   !.previousTime = menu]

\* MainMenu, idle, at the last second of January: after an idle run in Clock mode
\* (the clock face was last drawn at 23:59:57) the tick handler has just opened
\* the menu on a two-tick hold of button 1 and has drawn it, the user has moved
\* the cursor to some row and has released both buttons.
MenuStartClock == [hours |-> 23, minutes |-> 59, seconds |-> 59, day |-> 31, month |-> 1]
MenuFaceClock == [hours |-> 23, minutes |-> 59, seconds |-> 57, day |-> 31, month |-> 1]

InitMenuIdle ==
  /\ InitEnv /\ InitAcc /\ InitPace
  /\ systemClock = MenuStartClock
  /\ elapsedSeconds = IdleSeconds(MenuStartClock)
  /\ showFootIcon = (IdleSeconds(MenuStartClock) % 2 = 1)
  /\ currentSecondIndex = (IdleSeconds(MenuStartClock) - 1) % HISTORY_SIZE
  /\ inactivityCount = U8(IdleSeconds(MenuStartClock) - 1)
  /\ totalSteps = 0 /\ wasStepThresholdExceeded = FALSE
  /\ stepsPerSecond = [i \in 0..(HISTORY_SIZE - 1) |-> 0]
  /\ previousStepCount = 0
  /\ inMainMenu = TRUE /\ currentMenuSelection \in 0..(MENU_ITEM_COUNT - 1)
  /\ isGraphDisplayed = FALSE /\ justEnteredMenu = FALSE /\ redrawClock = FALSE
  /\ use12HourFormat = TRUE /\ timeFormatOption = 0
  /\ inTimeFormatMenu = FALSE /\ inTimeSetMenu = FALSE
  /\ timeToSet = [hours |-> 4, minutes |-> 0] /\ timeFieldSelected = 0
  /\ dateToSet = [day |-> 24, month |-> 1] /\ dateFieldSelected = 0
  /\ button1HoldCount = 0 /\ graphButton1HoldCount = 0 /\ comboPressCount = 0
  /\ button1WasPressed = FALSE /\ button2WasPressed = FALSE /\ wasInMenu = TRUE
  /\ button1Pressed = FALSE /\ button2Pressed = FALSE /\ tiltCount = 0
  /\ currentTimeStr = <<>> /\ isPM = FALSE /\ ret = <<>>
  /\ pc = "loop"
  /\ InitPureHist /\ bus = BusIdle
  /\ display = DispDrawn(MenuFaceClock, MenuTimeText(MenuStartClock, TRUE))
  /\ ticksLeft = MenuTicks /\ pressesLeft = MenuPresses
  /\ itersLeft = MenuClockIters /\ stepsLeft = MenuSteps
  /\ InitSysNotes /\ seen = SeenDrawn(MenuFaceClock, 0)
  /\ isrCalls = {"renderMainMenu", "DELAY_milliseconds"}

\* MainMenu just opened: two seconds after power-on, the second tick of a hold of
\* button 1 has opened the menu and drawn it, and the button is still held; the
\* foreground loop has drawn the clock face once, before the press, and is at the
\* top of an iteration.
InitMenuHeld ==
  /\ b1 = TRUE /\ b2 = FALSE /\ InitAcc /\ InitPace
  /\ systemClock = incrementSystemTime(incrementSystemTime(BootClock))
  /\ elapsedSeconds = 2 /\ showFootIcon = FALSE
  /\ totalSteps = 0 /\ wasStepThresholdExceeded = FALSE
  /\ stepsPerSecond = [i \in 0..(HISTORY_SIZE - 1) |-> 0] /\ currentSecondIndex = 1
  /\ previousStepCount = 0 /\ inactivityCount = 1
  /\ inMainMenu = TRUE /\ currentMenuSelection = 0
  /\ isGraphDisplayed = FALSE /\ justEnteredMenu = FALSE /\ redrawClock = FALSE
  /\ use12HourFormat = TRUE /\ timeFormatOption = 0
  /\ inTimeFormatMenu = FALSE /\ inTimeSetMenu = FALSE
  /\ timeToSet = [hours |-> 4, minutes |-> 0] /\ timeFieldSelected = 0
  /\ dateToSet = [day |-> 24, month |-> 1] /\ dateFieldSelected = 0
  /\ InitLocals /\ pc = "loop"
  /\ InitPureHist /\ bus = BusIdle
  /\ display = renderMainMenu(DispDrawn(BootClock, <<>>),
                              incrementSystemTime(incrementSystemTime(BootClock)), TRUE)
  /\ ticksLeft = HeldTicks /\ pressesLeft = HeldPresses
  /\ itersLeft = HeldClockIters /\ stepsLeft = HeldSteps
  /\ quietTicks = 2 /\ pollLog = <<>> /\ selBefore = 0
  /\ holdTicks = 2 /\ holdEntered = TRUE /\ levelRun = 0 /\ graphRun = 0
  /\ waitTicks = 0 /\ freshEntry = TRUE
  /\ released1 = FALSE /\ released2 = FALSE /\ inCombo1 = FALSE /\ inCombo2 = FALSE
  /\ staged = [clock |-> BootClock, presses |-> 0] /\ stepSum = 0
  /\ seen = SeenDrawn(BootClock, 0)
  /\ isrCalls = {"renderMainMenu", "DELAY_milliseconds"}

\* Clock mode one day after power-on, after a walk of 65535 steps that ended 100
\* seconds ago: the step counter is at the top of its 16-bit range, the pace has
\* decayed to 0 and every history bucket has been cleared again.
WalkClock == [hours |-> 4, minutes |-> 0, seconds |-> 0, day |-> 25, month |-> 1]

InitWalk ==
  /\ InitEnv /\ InitAcc /\ InitPace /\ InitSysState
  /\ systemClock = WalkClock
  /\ elapsedSeconds = IdleSeconds(WalkClock)
  /\ showFootIcon = (IdleSeconds(WalkClock) % 2 = 1)
  /\ currentSecondIndex = IdleSeconds(WalkClock) % HISTORY_SIZE
  /\ totalSteps = 65535 /\ previousStepCount = 65535 /\ inactivityCount = 100
  /\ wasStepThresholdExceeded = FALSE
  /\ stepsPerSecond = [i \in 0..(HISTORY_SIZE - 1) |-> 0]
  /\ InitPureHist /\ bus = BusIdle /\ display = DispDrawn(WalkClock, <<>>)
  /\ ticksLeft = WalkTicks /\ pressesLeft = WalkPresses
  /\ itersLeft = WalkClockIters /\ stepsLeft = WalkSteps
  /\ quietTicks = 3 /\ pollLog = <<>> /\ selBefore = 0
  /\ holdTicks = 0 /\ holdEntered = FALSE /\ levelRun = 0 /\ graphRun = 0
  /\ waitTicks = 0 /\ freshEntry = FALSE
  /\ released1 = FALSE /\ released2 = FALSE /\ inCombo1 = FALSE /\ inCombo2 = FALSE
  /\ staged = [clock |-> BootClock, presses |-> 0] /\ stepSum = 65535
  /\ seen = SeenDrawn(WalkClock, 0)
  /\ isrCalls = {}

Init == InitBoot \/ InitMenuIdle \/ InitMenuHeld \/ InitWalk

Env == Press1 \/ Release1 \/ Press2 \/ Release2
FgMain ==
  \/ FgLoop \/ FgBranch \/ FgWaitB1 \/ FgB1Done \/ FgWaitB2 \/ FgB2Done \/ FgMenuEnd
  \/ FgMenuDone \/ FgWaitCombo \/ FgAfterExec
  \/ FgDetect \/ FgDetectBucket \/ FgSmooth \/ FgHistory
FgMenuTime == FgMtHours \/ FgMtMinutes \/ FgMtSeconds \/ FgMtCompare \/ FgMtCopy
FgClockFace ==
  \/ FgRender \/ FgRcHours \/ FgRcMinutes \/ FgRcMinutesSet \/ FgRcSeconds \/ FgRcSecondsSet
  \/ FgRcDay \/ FgRcMonth \/ FgRcDaySet \/ FgRcMonthSet
FgGraph == FgGraphEnter \/ FgGraphPoll \/ FgGraphWaitB2 \/ FgGraphExit
FgFormat == FgFmtEnter \/ FgFmtPoll \/ FgFmtWaitB2 \/ FgFmtWaitB1
FgTimeSet ==
  \/ FgTsStageH \/ FgTsStageM \/ FgTsWaitRelease \/ FgTsPoll \/ FgTsWaitCombo
  \/ FgTsWaitB1 \/ FgTsWaitB2 \/ FgTsTilt \/ FgTsCommitM \/ FgTsCommitS
FgDateSet ==
  \/ FgDsStageD \/ FgDsStageM \/ FgDsWaitRelease \/ FgDsPoll \/ FgDsWaitCombo
  \/ FgDsWaitB1 \/ FgDsWaitB2 \/ FgDsTilt \/ FgDsCommitM
Next ==
  \/ Tick \/ Env \/ FgMain \/ FgMenuTime \/ FgClockFace
  \/ FgGraph \/ FgFormat \/ FgTimeSet \/ FgDateSet
  \/ FgHalt
Spec == Init /\ [][Next]_vars

GraphPcs == {"graphEnter", "graphPoll", "graphWaitB2", "graphExit"}
FormatPcs == {"fmtEnter", "fmtPoll", "fmtWaitB2", "fmtWaitB1"}
TimeSetPcs == {"tsStageH", "tsStageM", "tsWaitRelease", "tsPoll", "tsWaitCombo",
               "tsWaitB1", "tsWaitB2", "tsTilt", "tsCommitM", "tsCommitS"}
DateSetPcs == {"dsStageD", "dsStageM", "dsWaitRelease", "dsPoll", "dsWaitCombo",
               "dsWaitB1", "dsWaitB2", "dsTilt", "dsCommitM"}
\* the active variant of the menu state machine (displayStepGraph is still
\* active while it draws the menu on its way out)
Mode ==
  IF pc = "halted" THEN "Halted"
  ELSE IF pc \in GraphPcs \/ \E n \in 1..Len(ret) : ret[n] = "graphExit" THEN "Graph"
  ELSE IF pc \in FormatPcs THEN "TimeFormatMenu"
  ELSE IF pc \in TimeSetPcs THEN "SetTimeMenu"
  ELSE IF pc \in DateSetPcs THEN "SetDateMenu"
  ELSE IF inMainMenu THEN "MainMenu"
  ELSE "Clock"

\* ---- the watch in use
\* MainMenu, 42 seconds after power-on, during a walk at one step per second: a
\* step was detected in each of the first 41 seconds, the 41st tick derived the
\* pace 60 from the last of them (lines 797-809) and counted the first tick of a
\* hold of button 1, the 42nd opened the menu and skipped the derivation (line
\* 790). The main loop has smoothed the displayed pace up to 60, written it to
\* the graph history in seconds 1 to 41 (line 931) and drawn it with the clock
\* face, last at 4:00:41. The user has moved the cursor to some row and has
\* released both buttons.
WalkedSeconds == 42
WalkedClock == [hours |-> 4, minutes |-> 0, seconds |-> 42, day |-> 24, month |-> 1]
WalkedFaceClock == [hours |-> 4, minutes |-> 0, seconds |-> 41, day |-> 24, month |-> 1]

InitMenuWalked ==
  /\ InitEnv /\ InitAcc
  /\ systemClock = WalkedClock
  /\ elapsedSeconds = WalkedSeconds /\ showFootIcon = (WalkedSeconds % 2 = 1)
  /\ totalSteps = WalkedSeconds - 1 /\ previousStepCount = WalkedSeconds - 1
  /\ wasStepThresholdExceeded = FALSE
  /\ stepsPerSecond = [i \in 0..(HISTORY_SIZE - 1) |-> IF i < WalkedSeconds - 1 THEN 1 ELSE 0]
  /\ currentSecondIndex = WalkedSeconds - 1 /\ inactivityCount = 0
  /\ currentStepPace = PaceOfSteps(1) /\ displayedStepPace = PaceOfSteps(1)
  /\ currentDisplayPace = PaceOfSteps(1) /\ rawPace = PaceOfSteps(1)
  /\ stepRateHistory = [i \in 0..(GRAPH_WIDTH - 1) |->
                          IF 1 <= i /\ i < WalkedSeconds THEN PaceOfSteps(1) ELSE 0]
  /\ inMainMenu = TRUE /\ currentMenuSelection \in 0..(MENU_ITEM_COUNT - 1)
  /\ isGraphDisplayed = FALSE /\ justEnteredMenu = FALSE /\ redrawClock = FALSE
  /\ use12HourFormat = TRUE /\ timeFormatOption = 0
  /\ inTimeFormatMenu = FALSE /\ inTimeSetMenu = FALSE
  /\ timeToSet = [hours |-> 4, minutes |-> 0] /\ timeFieldSelected = 0
  /\ dateToSet = [day |-> 24, month |-> 1] /\ dateFieldSelected = 0
  /\ button1HoldCount = 0 /\ graphButton1HoldCount = 0 /\ comboPressCount = 0
  /\ button1WasPressed = FALSE /\ button2WasPressed = FALSE /\ wasInMenu = TRUE
  /\ button1Pressed = FALSE /\ button2Pressed = FALSE /\ tiltCount = 0
  /\ currentTimeStr = <<>> /\ isPM = FALSE /\ ret = <<>>
  /\ pc = "loop"
  /\ InitPureHist /\ bus = BusIdle
  /\ display = [DispDrawn(WalkedFaceClock, MenuTimeText(WalkedClock, TRUE))
                  EXCEPT !.previousText = PaceText(PaceOfSteps(1))]
  /\ ticksLeft = UsedTicks /\ pressesLeft = UsedPresses
  /\ itersLeft = UsedClockIters /\ stepsLeft = UsedSteps
  /\ quietTicks = 1 /\ pollLog = <<>> /\ selBefore = 0
  /\ holdTicks = 0 /\ holdEntered = FALSE /\ levelRun = 0 /\ graphRun = 0
  /\ waitTicks = 0 /\ freshEntry = FALSE
  /\ released1 = FALSE /\ released2 = FALSE /\ inCombo1 = FALSE /\ inCombo2 = FALSE
  /\ staged = [clock |-> BootClock, presses |-> 0] /\ stepSum = WalkedSeconds - 1
  /\ seen = SeenDrawn(WalkedFaceClock, PaceOfSteps(1))
  /\ isrCalls = {"renderMainMenu", "DELAY_milliseconds"}

\* MainMenu with the cursor on the Graph row, as InitMenuIdle, on a watch whose
\* graph has been left by the button-1 hold before: the first such exit left
\* displayStepGraph's static button1HoldCount at 20 (lines 634, 648-649), and
\* each of 235 later visits, entered with button 1 down and left on its first
\* poll, added one to it. Each of the 237 menu entries went through a tick that
\* skipped the bucket rotation and the pace derivation (line 790).
WornVisits == 236
WornHoldCount == GRAPH_HOLD_POLLS + (WornVisits - 1)

InitGraphWorn ==
  /\ InitEnv /\ InitAcc /\ InitPace
  /\ systemClock = MenuStartClock
  /\ elapsedSeconds = IdleSeconds(MenuStartClock)
  /\ showFootIcon = (IdleSeconds(MenuStartClock) % 2 = 1)
  /\ currentSecondIndex = (IdleSeconds(MenuStartClock) - (WornVisits + 1)) % HISTORY_SIZE
  /\ inactivityCount = U8(IdleSeconds(MenuStartClock) - (WornVisits + 1))
  /\ totalSteps = 0 /\ wasStepThresholdExceeded = FALSE
  /\ stepsPerSecond = [i \in 0..(HISTORY_SIZE - 1) |-> 0]
  /\ previousStepCount = 0
  /\ inMainMenu = TRUE /\ currentMenuSelection = 0
  /\ isGraphDisplayed = FALSE /\ justEnteredMenu = FALSE /\ redrawClock = FALSE
  /\ use12HourFormat = TRUE /\ timeFormatOption = 0
  /\ inTimeFormatMenu = FALSE /\ inTimeSetMenu = FALSE
  /\ timeToSet = [hours |-> 4, minutes |-> 0] /\ timeFieldSelected = 0
  /\ dateToSet = [day |-> 24, month |-> 1] /\ dateFieldSelected = 0
  /\ button1HoldCount = 0 /\ graphButton1HoldCount = WornHoldCount /\ comboPressCount = 0
  /\ button1WasPressed = FALSE /\ button2WasPressed = FALSE /\ wasInMenu = TRUE
  /\ button1Pressed = FALSE /\ button2Pressed = FALSE /\ tiltCount = 0
  /\ currentTimeStr = <<>> /\ isPM = FALSE /\ ret = <<>>
  /\ pc = "loop"
  /\ InitPureHist /\ bus = BusIdle
  /\ display = DispDrawn(MenuFaceClock, MenuTimeText(MenuStartClock, TRUE))
  /\ ticksLeft = UsedTicks /\ pressesLeft = UsedPresses
  /\ itersLeft = UsedClockIters /\ stepsLeft = UsedSteps
  /\ InitSysNotes /\ seen = SeenDrawn(MenuFaceClock, 0)
  /\ isrCalls = {"renderMainMenu", "DELAY_milliseconds"}

InitUsed == InitMenuWalked \/ InitGraphWorn
SpecUsed == InitUsed /\ [][Next]_vars


\* ------------------------------------------------------------ properties
\* C3: in every reachable state systemClock is a valid clock value (hours 0..23,
\* minutes and seconds 0..59, month 1..12, 1 <= day <= DAYS_PER_MONTH[month]),
\* the staging and commit steps of SetTimeMenu and SetDateMenu included.
C3_ClockAlwaysValid == ValidClock(systemClock)

\* C6: in MainMenu the selection is in 0..4; a recognized button-1 single press
\* moves it to (index - 1) mod 5, a recognized button-2 single press to
\* (index + 1) mod 5, and nothing else changes it while the state is MainMenu.
C6_SelectionWraps ==
  [][ /\ (Mode = "MainMenu" => currentMenuSelection \in 0..4)
      /\ (pc = "waitB1" /\ pc' # pc)
           => currentMenuSelection' = (currentMenuSelection + 4) % 5
      /\ (pc = "waitB2" /\ pc' # pc)
           => currentMenuSelection' = (currentMenuSelection + 1) % 5
      /\ (Mode = "MainMenu" /\ Mode' = "MainMenu"
            /\ currentMenuSelection' # currentMenuSelection)
           => (pc \in {"waitB1", "waitB2"} /\ pc' # pc) ]_vars

\* a button-1 single press on row 0 has just moved the cursor to row 4
C6_Witness ==
  /\ Mode = "MainMenu" /\ pc = "menuEnd"
  /\ button1WasPressed /\ selBefore = 0 /\ currentMenuSelection = 4

\* C7: in every state of SetDateMenu, from the end of its staging on, the staged
\* date satisfies month in 1..12 and 1 <= day <= DAYS_PER_MONTH[month] (day
\* increments and decrements wrap within the month, a month change clamps the
\* day to the new month's length).
C7_StagedDateValid ==
  pc \in (DateSetPcs \ {"dsStageD", "dsStageM"})
    => /\ dateToSet.month \in 1..12
       /\ dateToSet.day >= 1 /\ dateToSet.day <= DAYS_PER_MONTH[dateToSet.month]

\* C8: after three consecutive ticks with no step detected in between, rawPace
\* (currentStepPace) is 0.
C8_AsStated == quietTicks >= 3 => currentStepPace = 0

\* C9: in MainMenu the confirmation fires at the poll that completes three
\* consecutive polls reading both buttons pressed, and at no other; a poll that
\* does not read both pressed resets the combo count to 0; a dispatch happens only
\* from a count of 3; with selection 0 the dispatch enters Graph.
C9_ComboThreePolls ==
  [][ /\ (pc = "branch" /\ pc' = "waitCombo") => pollLog' = <<TRUE, TRUE, TRUE>>
      /\ (pc = "branch" /\ pc' # pc /\ inMainMenu /\ pollLog' = <<TRUE, TRUE, TRUE>>)
           => pc' = "waitCombo"
      /\ (pc = "branch" /\ pc' # pc /\ inMainMenu
            /\ ~(button1Pressed /\ button2Pressed))
           => comboPressCount' = 0
      /\ (pc' \in {"graphEnter", "fmtEnter", "tsStageH", "dsStageD"} /\ pc' # pc)
           => (pc = "waitCombo" /\ comboPressCount >= 3)
      /\ (pc = "waitCombo" /\ pc' # pc /\ currentMenuSelection = 0)
           => (pc' = "graphEnter" /\ Mode' = "Graph") ]_vars

\* the third combo poll on row 0 has dispatched: the state is Graph
C9_Witness ==
  pc = "graphEnter" /\ comboPressCount = 3 /\ currentMenuSelection = 0 /\ Mode = "Graph"

\* the sub-menus that return to MainMenu
SubMenus == {"TimeFormatMenu", "SetTimeMenu", "SetDateMenu"}

\* C10: a confirmation dispatches on the current selection (0 Graph, 1
\* TimeFormatMenu, 2 SetTimeMenu, 3 SetDateMenu, 4 exit to Clock); while one of the
\* three sub-menus is active the selection does not change, and when it finishes
\* the state is MainMenu.
C10_DispatchBySelection ==
  [][ /\ (pc = "waitCombo" /\ pc' # pc)
           => Mode' = CASE currentMenuSelection = 0 -> "Graph"
                        [] currentMenuSelection = 1 -> "TimeFormatMenu"
                        [] currentMenuSelection = 2 -> "SetTimeMenu"
                        [] currentMenuSelection = 3 -> "SetDateMenu"
                        [] OTHER -> "Clock"
      /\ (Mode \in SubMenus => currentMenuSelection' = currentMenuSelection)
      /\ (Mode \in SubMenus /\ Mode' \notin {Mode, "Halted"}) => Mode' = "MainMenu" ]_vars

\* SetTimeMenu, entered from row 2, has committed and returned to MainMenu
C10_Witness ==
  pc = "afterExec" /\ tiltCount = 1 /\ Mode = "MainMenu" /\ currentMenuSelection = 2


\* C11: from Clock, MainMenu is entered only by a tick at which the handler has
\* read button 1 pressed on this tick and on the one before it; at
\* the transition the selection is 0.
C11_EntryAfterTwoTicks ==
  [][ (Mode = "Clock" /\ Mode' = "MainMenu")
        => (ticksLeft' < ticksLeft /\ holdTicks' = 2 /\ currentMenuSelection' = 0) ]_vars

\* C12: one continuous hold of button 1 opens the menu at most once: the tick
\* handler does not enter the menu in a hold that has already entered it.
C12_EntryOncePerHold ==
  [][ (Mode = "Clock" /\ Mode' = "MainMenu") => ~holdEntered ]_vars

\* C13: no invocation of the tick handler, in any mode, calls a display primitive
\* or executes a delay or wait: it only updates shared state and returns.
C13_TickOnlyUpdatesState == [][ ticksLeft' < ticksLeft => isrCalls' = {} ]_vars

\* C17: once the fatal halt is entered the system stays halted: the foreground
\* loop does not resume, no step is counted, inMainMenu and the selection keep
\* their values, and no display primitive is called any more.
C17_HaltIsFinal ==
  [][ pc = "halted"
        => /\ pc' = "halted" /\ totalSteps' = totalSteps
           /\ inMainMenu' = inMainMenu
           /\ currentMenuSelection' = currentMenuSelection
           /\ (ticksLeft' < ticksLeft => "renderMainMenu" \notin isrCalls') ]_vars

\* C14: in SetTimeMenu and SetDateMenu a poll that reads not level resets the
\* confirm streak to 0, and the draft is committed only on a streak of more than
\* one consecutive level poll, never on a single level poll.
C14_CommitNeedsStreak ==
  [][ /\ (pc \in {"tsTilt", "dsTilt"} /\ pc' \in {"tsCommitM", "dsCommitM"})
           => levelRun' >= 2
      /\ (pc \in {"tsTilt", "dsTilt"} /\ pc' \in {"tsPoll", "dsPoll"} /\ levelRun' = 0)
           => tiltCount' = 0 ]_vars

\* C15: while SetTimeMenu (SetDateMenu) is active, hours and minutes (day and
\* month) of systemClock are changed only by the tick handler's advance, until the
\* confirm gesture: then they are set to the draft and the state returns to
\* MainMenu with systemClock holding the draft; no other step writes the draft
\* into systemClock.
C15_CommitOnlyOnConfirm ==
  [][ /\ (systemClock' # systemClock /\ ticksLeft' = ticksLeft)
           => \/ pc = "tsTilt" /\ pc' = "tsCommitM" /\ levelRun' >= 1
              \/ pc \in {"tsCommitM", "tsCommitS"}
              \/ pc = "dsTilt" /\ pc' = "dsCommitM" /\ levelRun' >= 1
              \/ pc = "dsCommitM"
      /\ (pc = "tsCommitS" /\ pc' # pc)
           => /\ Mode' = "MainMenu"
              /\ systemClock'.hours = timeToSet.hours
              /\ systemClock'.minutes = timeToSet.minutes
      /\ (pc = "dsCommitM" /\ pc' # pc)
           => /\ Mode' = "MainMenu"
              /\ systemClock'.day = dateToSet.day
              /\ systemClock'.month = dateToSet.month ]_vars

\* C18: in Graph the selection does not change; a button-2 single press returns
\* to MainMenu; button 1 read pressed (alone) on 20 consecutive Graph polls
\* returns to Clock without passing through MainMenu, with redrawClock set.
C18_GraphExits ==
  [][ /\ (Mode = "Graph" => currentMenuSelection' = currentMenuSelection)
      /\ (pc = "graphWaitB2" /\ pc' # pc)
           => (inMainMenu' /\ ret' = <<"mtHours", "graphExit">>)
      /\ (pc \in MtPcs /\ Mode = "Graph") => (inMainMenu' /\ Mode' = "Graph")
      /\ (pc = "graphPoll" /\ graphRun' = 20)
           => (pc' = "graphExit" /\ ~inMainMenu' /\ redrawClock')
      /\ (pc = "graphExit" /\ pc' # pc)
           => IF inMainMenu THEN Mode' = "MainMenu"
                            ELSE Mode' = "Clock" /\ redrawClock' ]_vars

\* C19: on entry of TimeFormatMenu the highlighted choice is the active format;
\* a button-2 single press toggles the highlighted choice and leaves the active
\* format alone; a button-1 single press makes the highlighted choice the active
\* format and returns to MainMenu; nothing else changes the active format.
C19_FormatChoice ==
  [][ /\ (pc = "fmtEnter" /\ pc' # pc)
           => ((timeFormatOption' = 0) <=> use12HourFormat')
      /\ (pc = "fmtWaitB2" /\ pc' # pc)
           => (timeFormatOption' = 1 - timeFormatOption /\ Mode' = "TimeFormatMenu")
      /\ (pc = "fmtWaitB1" /\ pc' # pc)
           => (use12HourFormat' = (timeFormatOption = 0) /\ Mode' = "MainMenu")
      /\ (use12HourFormat' # use12HourFormat) => (pc = "fmtWaitB1" /\ pc' # pc) ]_vars

\* the 24h choice has been highlighted with button 2 and committed with button 1
C19_Witness ==
  pc = "afterExec" /\ ~use12HourFormat /\ timeFormatOption = 1 /\ Mode = "MainMenu"

\* C20: a cached renderer issues display calls for a field only when the value
\* it reads, or the 12h/24h flag, differs from what it last rendered (or a redraw
\* was requested): displayStepPace draws only a pace other than that of its
\* previous call; updateMenuTimeDisplay, in the foreground and in the tick
\* handler, draws only a text other than the one it drew last; renderClockDisplay
\* touches a field only in the block of that field and enters the block only on a
\* difference, and called with the clock and format of its previous call, no
\* redraw request and no tick in between, it issues no call; and whatever a
\* renderer draws it has erased before.
C20_CachedRendering ==
  [][ /\ (pc = "render" /\ pc' # pc)
           => /\ display'.calls # <<>>
                   => (~seen.pace[1] \/ seen.pace[2] # displayedStepPace)
              /\ ErasedFirst(display'.calls)
      /\ (pc = "mtCompare" /\ pc' # pc)
           => /\ (pc' = "mtCopy") = (currentTimeStr # display.previousTime)
              /\ (pc' # "mtCopy" => display'.calls = <<>>)
      /\ (pc = "mtCopy" /\ pc' # pc)
           => /\ FieldsOf(display'.calls) = {"menuTime"}
              /\ ErasedFirst(display'.calls)
      /\ (ticksLeft' < ticksLeft /\ "renderMainMenu" \in isrCalls')
           => /\ display'.calls # <<>>
                   => MenuTimeText(systemClock', use12HourFormat) # display.previousTime
              /\ ErasedFirst(display'.calls)
      /\ (pc \in RcPcs /\ pc' # pc)
           => /\ \A f \in FieldsOf(CallsAdded(display, display')) :
                   \/ /\ f = "hours" /\ pc = "rcHours"
                      /\ \/ redrawClock
                         \/ DisplayHours(systemClock.hours, use12HourFormat) # display.lastHours
                         \/ display.lastWas12Hour # use12HourFormat
                   \/ f = "minutes" /\ pc = "rcMinutesSet"
                   \/ f = "seconds" /\ pc = "rcSecondsSet"
                   \/ /\ f = "ampm" /\ pc \in {"rcSeconds", "rcSecondsSet"}
                      /\ \/ isPM # display.lastIsPM
                         \/ display.lastWas12Hour # use12HourFormat
                   \/ f = "date" /\ pc = "rcDaySet"
              /\ pc' = "rcMinutesSet"
                   => \/ systemClock.minutes # display.lastMinutes
                      \/ display.lastWas12Hour # use12HourFormat
              /\ pc' = "rcSecondsSet" => systemClock.seconds # display.lastSeconds
              /\ pc' = "rcDaySet"
                   => \/ systemClock.day # display.lastDay
                      \/ systemClock.month # display.lastMonth
              /\ ErasedFirst(CallsAdded(display, display'))
              /\ (pc' = "loop" /\ seen'.again) => FieldsOf(display'.calls) \subseteq {"pace"}
    ]_vars

\* the main loop has rendered twice within one second, a day after power-on:
\* renderClockDisplay has just returned from a call with the clock and the format
\* of its previous call, no redraw request and no tick in between, and neither it
\* nor displayStepPace before it has issued a call
C20_Witness ==
  /\ pc = "loop" /\ seen.again /\ display.calls = <<>>
  /\ seen.face = <<TRUE, WalkClock, use12HourFormat>> /\ seen.pace = <<TRUE, 0>>
  /\ systemClock = WalkClock /\ itersLeft = WalkClockIters - 2

\* C21: the Clock render that follows a full-redraw request draws every cached
\* field: hours, minutes, seconds, day/month, the AM/PM marker in 12-hour format,
\* and the pace number when the pace is not zero, whatever was rendered before.
C21_RedrawDrawsAll ==
  [][ /\ (pc \in RcPcs /\ pc' = "loop" /\ seen.cur[3])
           => LET drawn == seen.drawn \cup DrawnFields(CallsAdded(display, display'))
              IN /\ {"hours", "minutes", "seconds", "date"} \subseteq drawn
                 /\ (seen.cur[2] => "ampm" \in drawn)
      /\ (pc = "render" /\ pc' # pc /\ redrawClock /\ displayedStepPace > 0)
           => "pace" \in DrawnFields(display'.calls) ]_vars

\* the blocking button waits of the foreground code, and what each one awaits
WaitPcs ==
  MainWaits \cup {"graphWaitB2", "fmtWaitB1", "fmtWaitB2", "tsWaitRelease", "tsWaitCombo",
                  "tsWaitB1", "tsWaitB2", "dsWaitRelease", "dsWaitCombo", "dsWaitB1",
                  "dsWaitB2"}
AwaitedReleased ==
  CASE pc \in {"waitB1", "fmtWaitB1", "tsWaitB1", "dsWaitB1"} -> ~b1
    [] pc \in {"waitB2", "graphWaitB2", "fmtWaitB2", "tsWaitB2", "dsWaitB2"} -> ~b2
    [] pc \in {"waitCombo", "tsWaitCombo", "dsWaitCombo"} -> ~(b1 /\ b2)
    [] OTHER -> ~b1 /\ ~b2

\* C22: while the foreground code is blocked in a wait for a button release, a
\* tick advances systemClock by exactly one second; totalSteps, displayedStepPace
\* and the pace histories do not change; and the wait ends only in a state where
\* the awaited line reads released.
C22_WaitKeepsClockOnly ==
  [][ (pc \in WaitPcs)
        => /\ ticksLeft' < ticksLeft
                => SecondOfYear(systemClock')
                     = (SecondOfYear(systemClock) + 1) % (365 * 86400)
           /\ totalSteps' = totalSteps /\ displayedStepPace' = displayedStepPace
           /\ stepRateHistory' = stepRateHistory /\ stepsPerSecond' = stepsPerSecond
           /\ (pc' # pc => AwaitedReleased) ]_vars

\* a tick has fired while the main loop waits for the release of button 1
C22_Witness == pc = "waitB1" /\ b1 /\ waitTicks = 1 /\ inMainMenu

\* C23: while inMainMenu is true no step is counted and the clock face is not
\* drawn, whatever the interleaving of the tick handler with the foreground loop.
C23_NoClockWorkInMenu ==
  [][ inMainMenu => /\ totalSteps' = totalSteps
                    /\ ~(pc \in {"render"} \cup RcPcs /\ pc' # pc) ]_vars

\* C24: in SetTimeMenu and SetDateMenu button 1 increments and button 2
\* decrements the selected field only, wrapping inside its range (hours 0..23,
\* minutes 0..59, day 1..last day of the staged month, month 1..12); the opposite
\* button undoes the change (for a month change: restores the month); a combo
\* toggles the selected field and leaves the draft alone.
C24_DraftEditing ==
  [][ /\ (pc = "tsWaitB1" /\ pc' # pc)
           => /\ timeToSet' = [timeToSet EXCEPT
                                 ![IF timeFieldSelected = 0 THEN "hours" ELSE "minutes"] =
                                   IF timeFieldSelected = 0 THEN (@ + 1) % 24 ELSE (@ + 1) % 60]
              /\ TimeDecrement(timeToSet', timeFieldSelected) = timeToSet
      /\ (pc = "tsWaitB2" /\ pc' # pc)
           => /\ timeToSet' = [timeToSet EXCEPT
                                 ![IF timeFieldSelected = 0 THEN "hours" ELSE "minutes"] =
                                   IF timeFieldSelected = 0 THEN (@ + 23) % 24 ELSE (@ + 59) % 60]
              /\ TimeIncrement(timeToSet', timeFieldSelected) = timeToSet
      /\ (pc \in {"dsWaitB1", "dsWaitB2"} /\ pc' # pc)
           => /\ dateToSet'.month \in 1..12
              /\ dateToSet'.day \in 1..DAYS_PER_MONTH[dateToSet'.month]
              /\ dateFieldSelected = 0 => dateToSet'.month = dateToSet.month
      /\ (pc = "dsWaitB1" /\ pc' # pc)
           => IF dateFieldSelected = 0
              THEN DateDecrement(dateToSet', 0) = dateToSet
              ELSE /\ dateToSet'.month = (dateToSet.month % 12) + 1
                   /\ DateDecrement(dateToSet', 1).month = dateToSet.month
      /\ (pc = "dsWaitB2" /\ pc' # pc)
           => IF dateFieldSelected = 0
              THEN DateIncrement(dateToSet', 0) = dateToSet
              ELSE /\ dateToSet'.month = ((dateToSet.month + 10) % 12) + 1
                   /\ DateIncrement(dateToSet', 1).month = dateToSet.month
      /\ (pc = "tsWaitCombo" /\ pc' # pc)
           => (timeFieldSelected' = 1 - timeFieldSelected /\ timeToSet' = timeToSet)
      /\ (pc = "dsWaitCombo" /\ pc' # pc)
           => (dateFieldSelected' = 1 - dateFieldSelected /\ dateToSet' = dateToSet) ]_vars

\* C25: every step that takes the system out of menu mode leaves redrawClock
\* set, and redrawClock is cleared by renderClockDisplay only (its first
\* step, in the Clock branch), so the request is pending at the next Clock render.
C25_ExitRequestsRedraw ==
  [][ /\ (inMainMenu /\ ~inMainMenu') => redrawClock'
      /\ (redrawClock /\ ~redrawClock') => (pc = "rcHours" /\ pc' = "rcMinutes") ]_vars

\* the Exit item has just been executed: Clock mode with the request pending
C25_Witness ==
  pc = "afterExec" /\ currentMenuSelection = 4 /\ ~inMainMenu /\ redrawClock /\ graphRun = 0

\* C26: the hold of button 1 that opens the menu is not taken as a single press
\* as well: after the tick handler has opened the menu (button 2 up), as long as
\* no button is pressed anew, the selection is 0.
C26_HoldIsConsumed == freshEntry => currentMenuSelection = 0

\* C27: the hold count of Graph is 0 when the graph loop starts, and Graph is
\* left towards Clock only by the poll that completes 20 consecutive polls of the
\* current visit reading button 1 (alone) pressed.
C27_HoldCountPerVisit ==
  [][ /\ (pc = "graphEnter" /\ pc' = "graphPoll") => graphButton1HoldCount' = 0
      /\ (pc = "graphPoll" /\ pc' = "graphExit" /\ ~inMainMenu') => graphRun' = 20 ]_vars

\* C28: in MainMenu a poll that reads both buttons pressed performs no
\* single-press action, and a press that a poll has read as one half of a combo
\* is not taken as a single press when the combo ends before its third poll:
\* the selection is changed only by presses that were never part of a combo.
C28_AbortedComboChangesNothing ==
  [][ /\ (pc = "branch" /\ inMainMenu /\ ~justEnteredMenu
            /\ button1Pressed /\ button2Pressed)
           => (pc' \notin {"waitB1", "waitB2"}
               /\ currentMenuSelection' = currentMenuSelection)
      /\ (pc = "branch" /\ pc' = "waitB1") => ~inCombo1
      /\ (pc \in {"branch", "b1Done"} /\ pc' = "waitB2") => ~inCombo2 ]_vars

\* C29: a set page confirmed without any button press since it was opened leaves
\* in the clock the hours and minutes (SetTimeMenu) or the day and month
\* (SetDateMenu) that the tick handler's advance alone would have produced.
C29_IdleConfirmKeepsTime ==
  [][ /\ (pc = "tsCommitS" /\ pc' # pc /\ staged.presses = pressesLeft)
           => /\ systemClock'.hours = staged.clock.hours
              /\ systemClock'.minutes = staged.clock.minutes
      /\ (pc = "dsCommitM" /\ pc' # pc /\ staged.presses = pressesLeft)
           => /\ systemClock'.day = staged.clock.day
              /\ systemClock'.month = staged.clock.month ]_vars

\* C30: at every tick that derives the pace, the sum of all stepsThisSecond
\* computed so far equals totalSteps modulo 2^16.
C30_StepsCountedOnce ==
  [][ (ticksLeft' < ticksLeft /\ ~inMainMenu') => U16(stepSum') = totalSteps ]_vars

\* the 65536th step has wrapped totalSteps to 0 and a tick has accounted for it
C30_Witness == totalSteps = 0 /\ previousStepCount = 0 /\ stepSum = 65536 /\ ~inMainMenu

====
